---- MODULE Spec2Model ----
(***************************************************************************)
(* repoctx: the file-backed card store (module cards, symbol cards, the    *)
(* keyword index), the staleness check, the query engine and the           *)
(* checkpoint with its change summary, as a state machine over the         *)
(* documents of the .repoctx directory, the source files of the working    *)
(* tree and the answers of git.                                            *)
(*                                                                         *)
(* Strings that the code takes apart (paths, symbol names) are sequences   *)
(* of one-character strings; tags, summaries and other opaque texts are    *)
(* plain strings.  A JavaScript object is an association list in key       *)
(* insertion order (a sequence of [k, v] records), an array is a sequence, *)
(* an optional field is <<>> (undefined) or <<v>>.  Keys are ordinary       *)
(* strings: names that every JavaScript object inherits ("constructor",    *)
(* "__proto__", ...) are not among the keys of the model.                  *)
(***************************************************************************)
EXTENDS Integers, Sequences, FiniteSets, TLC

VARIABLES
    disk,        \* working tree: canonical path -> file bytes, or no file
    indexDoc,    \* .repoctx/index.json
    fileRecs,    \* .repoctx/files/<ref>: ref -> document
    symIndexDoc, \* .repoctx/symbols-index.json
    symRecs,     \* .repoctx/symbols/<ref>: ref -> document
    clock,       \* number of saves so far; the timestamp source
    budget,      \* what is left of each bounded kind of step
    ret,         \* the command that has just run: its inputs and its result
    hist,        \* history: per key, the card and the file bytes of its last save
    stateDoc,    \* .repoctx/state.json
    git,         \* the repository: what git rev-parse answers
    writer,      \* the process of the checkpoint command: where it is
    savers       \* the processes of save commands that run side by side

vars ==
    <<disk, indexDoc, fileRecs, symIndexDoc, symRecs, clock, budget, ret, hist,
      stateDoc, git, writer, savers>>

ledger == <<stateDoc, git, writer, savers>>

store == <<indexDoc, fileRecs, symIndexDoc, symRecs>>

----------------------------------------------------------------------------
\* Bounds of the model.

MaxSaves == 3

MaxSymSaves == 2

MaxEdits == 2

\* module-card saves in the runs that save symbol cards
MaxCardSaves == 1

----------------------------------------------------------------------------
\* Generic helpers.

Range(s) == {s[i] : i \in 1..Len(s)}

Some(v) == <<v>>

None == <<>>

IsSome(o) == Len(o) > 0

Get(o) == o[1]

\* Array.prototype.includes
Includes(s, x) == \E i \in 1..Len(s) : s[i] = x

\* Array.prototype.filter
Filter(s, Keep(_)) == SelectSeq(s, Keep)

\* String.prototype.startsWith, on character sequences
StartsWith(s, pre) ==
    /\ Len(pre) <= Len(s)
    /\ SubSeq(s, 1, Len(pre)) = pre

\* A JavaScript object with string keys: [k, v] entries in insertion order.
ObjKeys(o) == [i \in 1..Len(o) |-> o[i].k]

ObjHas(o, key) == \E i \in 1..Len(o) : o[i].k = key

ObjGet(o, key) == o[CHOOSE i \in 1..Len(o) : o[i].k = key].v

\* o[key] = val: an existing key keeps its place, a new key goes last.
ObjSet(o, key, val) ==
    IF ObjHas(o, key)
    THEN [i \in 1..Len(o) |-> IF o[i].k = key THEN [k |-> key, v |-> val] ELSE o[i]]
    ELSE Append(o, [k |-> key, v |-> val])

\* delete o[key]
ObjDelete(o, key) == Filter(o, LAMBDA e : e.k # key)

ObjValues(o) == [i \in 1..Len(o) |-> o[i].v]

\* A document of the storage root: absent, unparseable, or a JSON value.
NoDoc == [kind |-> "absent"]

CorruptDoc == [kind |-> "corrupt"]

Json(v) == [kind |-> "json", v |-> v]

\* fs.readFile + JSON.parse succeed
Parses(d) == d.kind = "json"

----------------------------------------------------------------------------
\* Paths.  "/" separates segments; path.resolve followed by path.relative
\* against the working directory drops "" and "." segments and folds "..".

Slash == "/"

RECURSIVE SplitFrom(_, _, _)
SplitFrom(s, i, cur) ==
    IF i > Len(s) THEN <<cur>>
    ELSE IF s[i] = Slash THEN <<cur>> \o SplitFrom(s, i + 1, <<>>)
    ELSE SplitFrom(s, i + 1, Append(cur, s[i]))

\* String.prototype.split("/")
Split(s) == SplitFrom(s, 1, <<>>)

RECURSIVE Join(_)
Join(segs) ==
    IF segs = <<>> THEN <<>>
    ELSE IF Len(segs) = 1 THEN segs[1]
    ELSE segs[1] \o <<Slash>> \o Join(Tail(segs))

RECURSIVE Fold(_, _)
Fold(segs, stack) ==
    IF segs = <<>> THEN stack
    ELSE LET g == Head(segs) IN
         IF g = <<>> \/ g = <<".">> THEN Fold(Tail(segs), stack)
         ELSE IF g = <<".", ".">>
              THEN IF stack # <<>> /\ stack[Len(stack)] # <<".", ".">>
                   THEN Fold(Tail(segs), SubSeq(stack, 1, Len(stack) - 1))
                   ELSE Fold(Tail(segs), Append(stack, g))
              ELSE Fold(Tail(segs), Append(stack, g))

\* path.relative(process.cwd(), path.resolve(p)).replaceAll("\\", "/")
\* for a relative p; the working directory itself gives "".
RelativeToCwd(p) == Join(Fold(Split(p), <<>>))

----------------------------------------------------------------------------
\* Hashing.  SHA-1 is taken to be injective on the values of the model.

NoFile == "<no file>"

\* sha1 hex digest of a file's bytes
Sha1Hex(bytes) ==
    CASE bytes = "v1" -> "0e90fd"
      [] bytes = "v2" -> "7c4a8d"
      [] bytes = "v3" -> "b1d576"

Readable(p) == p \in DOMAIN disk /\ disk[p] # NoFile

fileHash(p) == Sha1Hex(disk[p])

\* A faulty variant: only the first character of the key is hashed.
refFromPath_firstChar(p) == [sha1 |-> SubSeq(p, 1, 1), ext |-> ".json"]

\* the first 12 hex digits of sha1(p), and ".json"
refFromPath(p) == [sha1 |-> p, ext |-> ".json"]

\* the names, sorted and joined: a function of the bag of names
computePublicSurfaceHash(symbols) ==
    [sha1 |-> [n \in Range(symbols) |-> Cardinality({i \in 1..Len(symbols) : symbols[i] = n})]]

----------------------------------------------------------------------------
\* Module cards (RepoctxFileCache) and their records.

CardFields ==
    {"path", "hash", "publicSurfaceHash", "summary", "symbols", "exports", "keywords",
     "dependencies", "footguns", "delta", "repoHeadAtSave", "updatedAt"}

OptionalFields ==
    {"publicSurfaceHash", "exports", "keywords", "dependencies", "footguns", "delta",
     "repoHeadAtSave"}

MetaHash == "meta"

\* JSON.stringify of a card: a key whose value is undefined is left out.
StringifyCard(c) ==
    LET present == {f \in CardFields : f \in OptionalFields => IsSome(c[f])}
    IN  [f \in present |-> IF f \in OptionalFields THEN Get(c[f]) ELSE c[f]]

\* JSON.parse of a card record: a key that is not there reads as undefined.
ParseCard(v) ==
    [f \in CardFields |->
        IF f \in OptionalFields
        THEN (IF f \in DOMAIN v THEN Some(v[f]) ELSE None)
        ELSE v[f]]

----------------------------------------------------------------------------
\* The index document.

EmptyIndex == [version |-> 1, files |-> <<>>, keywordIndex |-> <<>>]

\* A faulty variant: a document without a keywordIndex section is not loaded.
loadIndexOf_strict(d) ==
    IF Parses(d) /\ IsSome(d.v.keywordIndex)
    THEN [version |-> d.v.version, files |-> d.v.files,
          keywordIndex |-> Get(d.v.keywordIndex)]
    ELSE EmptyIndex

\* The in-memory index read from document d; an unreadable document and a
\* document without a keywordIndex section are not failures.
loadIndexOf(d) ==
    IF Parses(d)
    THEN [version |-> d.v.version,
          files |-> d.v.files,
          keywordIndex |-> IF IsSome(d.v.keywordIndex) THEN Get(d.v.keywordIndex) ELSE <<>>]
    ELSE EmptyIndex

loadIndex == loadIndexOf(indexDoc)

\* The document saveIndex writes for idx.
saveIndex(idx) ==
    Json([version |-> idx.version, files |-> idx.files,
          keywordIndex |-> Some(idx.keywordIndex)])

\* null is None
loadFileCache(rel) ==
    LET idx == loadIndex IN
    IF ~ObjHas(idx.files, rel) THEN None
    ELSE LET d == fileRecs[ObjGet(idx.files, rel).ref] IN
         IF Parses(d) THEN Some(ParseCard(d.v)) ELSE None

\* A faulty variant: the path is left in the buckets it was in.
removeFromBuckets_kept(kwi, keys, rel) == kwi

\* A faulty variant: an emptied bucket is left in the index.
RECURSIVE removeFromBuckets_keepEmpty(_, _, _)
removeFromBuckets_keepEmpty(kwi, keys, rel) ==
    IF keys = <<>> THEN kwi
    ELSE LET kw == Head(keys)
             bucket == Filter(ObjGet(kwi, kw), LAMBDA q : q # rel)
         IN  removeFromBuckets_keepEmpty(ObjSet(kwi, kw, bucket), Tail(keys), rel)

\* lines 273-276: take rel out of every bucket, delete the emptied buckets
RECURSIVE removeFromBuckets(_, _, _)
removeFromBuckets(kwi, keys, rel) ==
    IF keys = <<>> THEN kwi
    ELSE LET kw == Head(keys)
             bucket == Filter(ObjGet(kwi, kw), LAMBDA q : q # rel)
             kwi1 == ObjSet(kwi, kw, bucket)
             kwi2 == IF Len(bucket) = 0 THEN ObjDelete(kwi1, kw) ELSE kwi1
         IN  removeFromBuckets(kwi2, Tail(keys), rel)

\* lines 278-283: put rel into the bucket of each keyword, once
RECURSIVE addToBuckets(_, _, _)
addToBuckets(kwi, keywords, rel) ==
    IF keywords = <<>> THEN kwi
    ELSE LET kw == Head(keywords)
             kwi1 == IF ~ObjHas(kwi, kw) THEN ObjSet(kwi, kw, <<>>) ELSE kwi
             kwi2 == IF ~Includes(ObjGet(kwi1, kw), rel)
                     THEN ObjSet(kwi1, kw, Append(ObjGet(kwi1, kw), rel))
                     ELSE kwi1
         IN  addToBuckets(kwi2, Tail(keywords), rel)

\* A faulty variant: rel is pushed onto the bucket of each keyword, nothing else.
RECURSIVE pushToBuckets(_, _, _)
pushToBuckets(kwi, keywords, rel) ==
    IF keywords = <<>> THEN kwi
    ELSE LET kw == Head(keywords)
             old == IF ObjHas(kwi, kw) THEN ObjGet(kwi, kw) ELSE <<>>
         IN  pushToBuckets(ObjSet(kwi, kw, Append(old, rel)), Tail(keywords), rel)

reconcile_pushOnly(idx, rel, data) ==
    [version |-> idx.version,
     files |-> ObjSet(idx.files, rel, [hash |-> data.hash, ref |-> refFromPath(rel)]),
     keywordIndex |-> pushToBuckets(idx.keywordIndex,
                                    IF IsSome(data.keywords) THEN Get(data.keywords) ELSE <<>>,
                                    rel)]

\* A faulty variant: the buckets are updated, the entry of the path is not.
reconcile_noEntry(idx, rel, data) ==
    LET keywords == IF IsSome(data.keywords) THEN Get(data.keywords) ELSE <<>>
        removed == removeFromBuckets(idx.keywordIndex, ObjKeys(idx.keywordIndex), rel)
    IN  [version |-> idx.version,
         files |-> idx.files,
         keywordIndex |-> addToBuckets(removed, keywords, rel)]

\* The index saveFileCache(rel, data) writes, from the index it loaded.
reconcile(idx, rel, data) ==
    LET ref == refFromPath(rel)
        keywords == IF IsSome(data.keywords) THEN Get(data.keywords) ELSE <<>>
        removed == removeFromBuckets(idx.keywordIndex, ObjKeys(idx.keywordIndex), rel)
    IN  [version |-> idx.version,
         files |-> ObjSet(idx.files, rel, [hash |-> data.hash, ref |-> ref]),
         keywordIndex |-> addToBuckets(removed, keywords, rel)]

\* A faulty variant: a record that exists is not written again.
saveFileCache_keepRecord(rel, data) ==
    /\ fileRecs' = IF fileRecs[refFromPath(rel)] = NoDoc
                   THEN [fileRecs EXCEPT ![refFromPath(rel)] = Json(StringifyCard(data))]
                   ELSE fileRecs
    /\ indexDoc' = saveIndex(reconcile(loadIndex, rel, data))

\* saveFileCache: the record is written, then the whole index document.
saveFileCache(rel, data) ==
    /\ fileRecs' = [fileRecs EXCEPT ![refFromPath(rel)] = Json(StringifyCard(data))]
    /\ indexDoc' = saveIndex(reconcile(loadIndex, rel, data))

\* A faulty variant: the buckets are concatenated.
unionInto_concat(acc, ps) == acc \o ps

\* the index read afresh, the union of the requested buckets in first-seen order
RECURSIVE unionInto(_, _)
unionInto(acc, ps) ==
    IF ps = <<>> THEN acc
    ELSE unionInto(IF Includes(acc, Head(ps)) THEN acc ELSE Append(acc, Head(ps)), Tail(ps))

RECURSIVE lookupIn(_, _, _)
lookupIn(kwi, keywords, acc) ==
    IF keywords = <<>> THEN acc
    ELSE LET k == Head(keywords)
             bucket == IF ObjHas(kwi, k) THEN ObjGet(kwi, k) ELSE <<>>
         IN  lookupIn(kwi, Tail(keywords), unionInto(acc, bucket))

lookupByKeywords(keywords) == lookupIn(loadIndex.keywordIndex, keywords, <<>>)

----------------------------------------------------------------------------
\* Symbol cards.

SymbolFields ==
    {"symbol", "kind", "file", "signature", "purpose", "related", "keywords", "updatedAt"}

OptionalSymbolFields == {"signature", "related", "keywords"}

StringifySymbol(c) ==
    LET present == {f \in SymbolFields : f \in OptionalSymbolFields => IsSome(c[f])}
    IN  [f \in present |-> IF f \in OptionalSymbolFields THEN Get(c[f]) ELSE c[f]]

ParseSymbol(v) ==
    [f \in SymbolFields |->
        IF f \in OptionalSymbolFields
        THEN (IF f \in DOMAIN v THEN Some(v[f]) ELSE None)
        ELSE v[f]]

\* the symbols mapping, name -> file name; an unreadable document is empty
loadSymbolsIndex == IF Parses(symIndexDoc) THEN symIndexDoc.v ELSE [version |-> 1, symbols |-> <<>>]

SymbolPrefix == <<"symbol:">>

\* A faulty variant: the symbols index is written anew, with the saved name only.
saveSymbolCard_anew(data) ==
    LET fname == refFromPath(SymbolPrefix \o data.symbol)
    IN  /\ symRecs' = [symRecs EXCEPT ![fname] = Json(StringifySymbol(data))]
        /\ symIndexDoc' = Json([version |-> 1,
                                 symbols |-> <<[k |-> data.symbol, v |-> fname]>>])

\* lines 310-320
saveSymbolCard(data) ==
    LET idx == loadSymbolsIndex
        fname == refFromPath(SymbolPrefix \o data.symbol)
    IN  /\ symRecs' = [symRecs EXCEPT ![fname] = Json(StringifySymbol(data))]
        /\ symIndexDoc' = Json([version |-> idx.version,
                                 symbols |-> ObjSet(idx.symbols, data.symbol, fname)])

\* A faulty variant: the first unreadable record ends the listing.
RECURSIVE readSymbols_abort(_)
readSymbols_abort(fnames) ==
    IF fnames = <<>> THEN <<>>
    ELSE LET d == symRecs[Head(fnames)] IN
         IF Parses(d) THEN <<ParseSymbol(d.v)>> \o readSymbols_abort(Tail(fnames)) ELSE <<>>

\* the cards of the indexed symbols in index order, unreadable records skipped
RECURSIVE readSymbols(_)
readSymbols(fnames) ==
    IF fnames = <<>> THEN <<>>
    ELSE LET d == symRecs[Head(fnames)] IN
         (IF Parses(d) THEN <<ParseSymbol(d.v)>> ELSE <<>>) \o readSymbols(Tail(fnames))

loadAllSymbols == readSymbols(ObjValues(loadSymbolsIndex.symbols))

----------------------------------------------------------------------------
\* Commands.  One command runs at a time, start to end (ret.op = "none"
\* between commands); ret keeps what the command was given and returned.

Idle == [op |-> "none"]

\* an optional opaque string used as a condition: undefined and "" are falsy
Truthy(o) == IsSome(o) /\ Get(o) # ""

\* o?.length > 0, and an optional character sequence used as a condition
NonEmpty(o) == IsSome(o) /\ Len(Get(o)) > 0

\* the entry saveManual builds (lines 97-122)
manualEntry(a, rel, head, whereUsed) ==
    [path |-> rel,
     hash |-> IF a.meta THEN MetaHash ELSE fileHash(RelativeToCwd(a.filePath)),
     summary |-> IF ~a.meta /\ Len(whereUsed) > 0
                 THEN <<a.summary, "Used in:", whereUsed>>
                 ELSE <<a.summary>>,
     symbols |-> a.symbols,
     keywords |-> Some(a.keywords),
     updatedAt |-> clock,
     publicSurfaceHash |-> IF Len(a.symbols) > 0
                           THEN Some(computePublicSurfaceHash(a.symbols)) ELSE None,
     exports |-> IF NonEmpty(a.exports) THEN a.exports ELSE None,
     dependencies |-> IF NonEmpty(a.dependencies) THEN a.dependencies ELSE None,
     footguns |-> IF Truthy(a.footguns) THEN a.footguns ELSE None,
     delta |-> IF Truthy(a.delta) THEN a.delta ELSE None,
     repoHeadAtSave |-> IF Truthy(head) THEN head ELSE None]

\* repoctx save: saveManual(a), with the answers of git (head) and grep (whereUsed)
saveManual(a, head, whereUsed) ==
    /\ ret = Idle
    /\ budget.saves > 0
    /\ budget' = [budget EXCEPT !.saves = @ - 1]
    /\ clock' = clock + 1
    /\ UNCHANGED <<disk, symIndexDoc, symRecs, ledger>>
    /\ IF ~a.meta /\ ~Readable(RelativeToCwd(a.filePath))
       THEN \* fileHash throws before anything is written
            /\ ret' = [op |-> "saveManual", threw |-> TRUE, a |-> a]
            /\ UNCHANGED <<indexDoc, fileRecs, hist>>
       ELSE LET rel == IF a.meta THEN a.filePath ELSE RelativeToCwd(a.filePath)
                entry == manualEntry(a, rel, head, whereUsed)
            IN  /\ saveFileCache(rel, entry)
                /\ ret' = [op |-> "saveManual", threw |-> FALSE, a |-> a,
                           rel |-> rel, data |-> entry,
                           before |-> loadIndex, prev |-> hist.cards[rel]]
                /\ hist' = [hist EXCEPT
                               !.cards[rel] = Some(entry),
                               !.bytes[rel] = IF a.meta THEN NoFile ELSE disk[rel],
                               !.nsaves[rel] = @ + 1]

\* the card saveSymbol builds (lines 20-30)
symbolCard(a) ==
    [symbol |-> a.symbol, kind |-> a.kind, file |-> a.file, purpose |-> a.purpose,
     updatedAt |-> clock,
     signature |-> IF Truthy(a.signature) THEN a.signature ELSE None,
     related |-> IF NonEmpty(a.related) THEN a.related ELSE None,
     keywords |-> IF NonEmpty(a.keywords) THEN a.keywords ELSE None]

\* repoctx save-symbol
saveSymbol(a) ==
    /\ ret = Idle
    /\ budget.symSaves > 0
    /\ budget' = [budget EXCEPT !.symSaves = @ - 1]
    /\ clock' = clock + 1
    /\ saveSymbolCard(symbolCard(a))
    /\ ret' = [op |-> "saveSymbol", a |-> a, data |-> symbolCard(a)]
    /\ hist' = [hist EXCEPT !.symbols[a.symbol] = Some(symbolCard(a))]
    /\ UNCHANGED <<disk, indexDoc, fileRecs, ledger>>

\* The working tree changes under the store: a file is written or removed.
writeFile(p, bytes) ==
    /\ ret = Idle
    /\ budget.edits > 0
    /\ disk[p] # bytes
    /\ budget' = [budget EXCEPT !.edits = @ - 1]
    /\ disk' = [disk EXCEPT ![p] = bytes]
    /\ UNCHANGED <<indexDoc, fileRecs, symIndexDoc, symRecs, clock, ret, hist, ledger>>

deleteFile(p) ==
    /\ ret = Idle
    /\ budget.edits > 0
    /\ disk[p] # NoFile
    /\ budget' = [budget EXCEPT !.edits = @ - 1]
    /\ disk' = [disk EXCEPT ![p] = NoFile]
    /\ UNCHANGED <<indexDoc, fileRecs, symIndexDoc, symRecs, clock, ret, hist, ledger>>

----------------------------------------------------------------------------
\* The --related option of save-symbol: "symbol:relation,symbol:relation".

RECURSIVE SplitOnFrom(_, _, _, _)
SplitOnFrom(s, sep, i, cur) ==
    IF i > Len(s) THEN <<cur>>
    ELSE IF s[i] = sep THEN <<cur>> \o SplitOnFrom(s, sep, i + 1, <<>>)
    ELSE SplitOnFrom(s, sep, i + 1, Append(cur, s[i]))

\* String.prototype.split(sep) for a separator of one character
SplitOn(s, sep) == SplitOnFrom(s, sep, 1, <<>>)

\* Array.prototype.join(sep)
RECURSIVE JoinWith(_, _)
JoinWith(segs, sep) ==
    IF segs = <<>> THEN <<>>
    ELSE IF Len(segs) = 1 THEN segs[1]
    ELSE segs[1] \o <<sep>> \o JoinWith(Tail(segs), sep)

RECURSIVE TrimStart(_)
TrimStart(s) == IF s # <<>> /\ Head(s) = " " THEN TrimStart(Tail(s)) ELSE s

RECURSIVE TrimEnd(_)
TrimEnd(s) ==
    IF s # <<>> /\ s[Len(s)] = " " THEN TrimEnd(SubSeq(s, 1, Len(s) - 1)) ELSE s

\* String.prototype.trim
Trim(s) == TrimEnd(TrimStart(s))

DefaultRelation == <<"r", "e", "l", "a", "t", "e", "d">>

\* A faulty variant: a label that is not there stays empty.
relationOf_noDefault(rest) == Trim(JoinWith(rest, ":"))

\* line 46: rest.join(":").trim() || "related"
relationOf(rest) ==
    LET label == Trim(JoinWith(rest, ":")) IN
    IF label # <<>> THEN label ELSE DefaultRelation

\* lines 43-47: the entry of one segment
relatedEntry(seg) ==
    LET parts == SplitOn(seg, ":") IN
    [symbol |-> Trim(Head(parts)), relation |-> relationOf(Tail(parts))]

\* parseRelated(raw), lines 37-49
parseRelated(raw) ==
    LET segs == SplitOn(raw, ",")
        trimmed == [i \in 1..Len(segs) |-> Trim(segs[i])]
        kept == SelectSeq(trimmed, LAMBDA seg : seg # <<>>)
    IN  [i \in 1..Len(kept) |-> relatedEntry(kept[i])]

----------------------------------------------------------------------------
\* The checkpoint.  The checkpoint command is a process of its own (writer),
\* so that the other commands can run while state.json is being written.

\* outside a repository git rev-parse fails
NoGit == [head |-> None, branch |-> None]

\* String.prototype.slice(0, n)
Slice(s, n) == SubSeq(s, 1, IF Len(s) < n THEN Len(s) ELSE n)

\* state.lastCheckpoint ?? null, or null when state.json cannot be read or parsed
loadCheckpoint ==
    IF Parses(stateDoc)
    THEN (IF IsSome(stateDoc.v.lastCheckpoint) THEN stateDoc.v.lastCheckpoint ELSE None)
    ELSE None

\* A faulty variant: git's failure is swallowed and the write goes ahead.
saveCheckpoint_swallow ==
    /\ writer.pc = "idle"
    /\ budget.checkpoints > 0
    /\ budget' = [budget EXCEPT !.checkpoints = @ - 1]
    /\ clock' = clock + 1
    /\ stateDoc' = CorruptDoc
    /\ writer' = [pc |-> "writing", git |-> git, before |-> loadCheckpoint,
                  beforeDoc |-> stateDoc,
                  cp |-> [head |-> IF IsSome(git.head) THEN Get(git.head) ELSE <<>>,
                          branch |-> IF IsSome(git.branch) THEN Get(git.branch) ELSE "",
                          at |-> clock]]
    /\ UNCHANGED <<disk, indexDoc, fileRecs, symIndexDoc, symRecs, ret, hist, git, savers>>

\* repoctx checkpoint, lines 21-32 up to the opening of state.json:
\* execSync throws when git cannot answer, before anything is written;
\* otherwise fs.writeFile opens the file with flag "w", which empties it.
saveCheckpoint ==
    /\ writer.pc = "idle"
    /\ budget.checkpoints > 0
    /\ budget' = [budget EXCEPT !.checkpoints = @ - 1]
    /\ clock' = clock + 1
    /\ IF ~IsSome(git.head) \/ ~IsSome(git.branch)
       THEN /\ writer' = [pc |-> "returned", threw |-> TRUE, git |-> git,
                          before |-> loadCheckpoint, beforeDoc |-> stateDoc]
            /\ UNCHANGED stateDoc
       ELSE /\ stateDoc' = CorruptDoc
            /\ writer' = [pc |-> "writing", git |-> git, before |-> loadCheckpoint,
                          beforeDoc |-> stateDoc,
                          cp |-> [head |-> Get(git.head), branch |-> Get(git.branch),
                                  at |-> clock]]
    /\ UNCHANGED <<disk, indexDoc, fileRecs, symIndexDoc, symRecs, ret, hist, git, savers>>

\* A faulty variant: a checkpoint that is there is put back, not replaced.
saveCheckpoint_write_keepFirst ==
    /\ writer.pc = "writing"
    /\ stateDoc' = IF IsSome(writer.before) THEN writer.beforeDoc
                   ELSE Json([repoRoot |-> "cwd", lastCheckpoint |-> Some(writer.cp)])
    /\ writer' = [pc |-> "returned", threw |-> FALSE, git |-> writer.git,
                  before |-> writer.before, beforeDoc |-> writer.beforeDoc,
                  cp |-> writer.cp]
    /\ hist' = [hist EXCEPT !.checkpoint = Some(writer.cp)]
    /\ UNCHANGED <<disk, indexDoc, fileRecs, symIndexDoc, symRecs, clock, budget, ret, git, savers>>

\* lines 32-34: the data is written and the checkpoint returned
saveCheckpoint_write ==
    /\ writer.pc = "writing"
    /\ stateDoc' = Json([repoRoot |-> "cwd", lastCheckpoint |-> Some(writer.cp)])
    /\ writer' = [pc |-> "returned", threw |-> FALSE, git |-> writer.git,
                  before |-> writer.before, beforeDoc |-> writer.beforeDoc,
                  cp |-> writer.cp]
    /\ hist' = [hist EXCEPT !.checkpoint = Some(writer.cp)]
    /\ UNCHANGED <<disk, indexDoc, fileRecs, symIndexDoc, symRecs, clock, budget, ret, git, savers>>

\* the process is killed while state.json is open: the file stays as it is
checkpoint_killed ==
    /\ writer.pc = "writing"
    /\ writer' = [pc |-> "idle"]
    /\ hist' = [hist EXCEPT !.killed = TRUE]
    /\ UNCHANGED <<disk, indexDoc, fileRecs, symIndexDoc, symRecs, clock, budget, ret,
                   stateDoc, git, savers>>

\* the checkpoint command ends: it has printed the checkpoint, or the error
\* and exit code 1
checkpoint_exit ==
    /\ writer.pc = "returned"
    /\ writer' = [pc |-> "idle"]
    /\ UNCHANGED <<disk, indexDoc, fileRecs, symIndexDoc, symRecs, clock, budget, ret,
                   hist, stateDoc, git, savers>>

\* the repository changes: it is created, removed, or HEAD moves
gitChange(g) ==
    /\ budget.commits > 0
    /\ g # git
    /\ budget' = [budget EXCEPT !.commits = @ - 1]
    /\ git' = g
    /\ UNCHANGED <<disk, indexDoc, fileRecs, symIndexDoc, symRecs, clock, ret, hist,
                   stateDoc, writer, savers>>

\* A record of the store is damaged from outside: it no longer parses, or
\* it is gone.
damageRecord(ref, d) ==
    /\ ret = Idle
    /\ budget.damage > 0
    /\ Parses(fileRecs[ref])
    /\ budget' = [budget EXCEPT !.damage = @ - 1]
    /\ fileRecs' = [fileRecs EXCEPT ![ref] = d]
    /\ UNCHANGED <<disk, indexDoc, symIndexDoc, symRecs, clock, ret, hist, ledger>>

\* index.json is damaged from outside: it no longer parses, or it is gone
damageIndex(d) ==
    /\ ret = Idle
    /\ budget.damage > 0
    /\ Parses(indexDoc)
    /\ budget' = [budget EXCEPT !.damage = @ - 1]
    /\ indexDoc' = d
    /\ UNCHANGED <<disk, fileRecs, symIndexDoc, symRecs, clock, ret, hist, ledger>>

damageSymbolRecord(fname, d) ==
    /\ ret = Idle
    /\ budget.damage > 0
    /\ Parses(symRecs[fname])
    /\ budget' = [budget EXCEPT !.damage = @ - 1]
    /\ symRecs' = [symRecs EXCEPT ![fname] = d]
    /\ UNCHANGED <<disk, indexDoc, fileRecs, symIndexDoc, clock, ret, hist, ledger>>

----------------------------------------------------------------------------
\* Save commands side by side.  Each is a process of its own (saveManual
\* step by step): the index is read, the record is opened (fs.writeFile
\* empties it) and written, then index.json is opened and written.  A
\* process can be killed on the way.

Savers == {1, 2}

NoSavers == [proc |-> [w \in Savers |-> [pc |-> "idle"]], overlapped |-> FALSE,
             killedAt |-> "none"]

Active(w) == savers.proc[w].pc # "idle"

\* A faulty variant: the save starts from an empty index.
save_begin_empty(w, a, head, whereUsed) ==
    /\ ~Active(w)
    /\ budget.saves > 0
    /\ Readable(RelativeToCwd(a.filePath))
    /\ budget' = [budget EXCEPT !.saves = @ - 1]
    /\ clock' = clock + 1
    /\ LET rel == RelativeToCwd(a.filePath) IN
       savers' = [savers EXCEPT
                     !.proc[w] = [pc |-> "loaded", a |-> a, rel |-> rel,
                                  data |-> manualEntry(a, rel, head, whereUsed),
                                  idx |-> EmptyIndex],
                     !.overlapped = @ \/ \E v \in Savers \ {w} : Active(v)]
    /\ UNCHANGED <<disk, indexDoc, fileRecs, symIndexDoc, symRecs, ret, hist, stateDoc,
                   git, writer>>

\* saveManual lines 97-122 and saveFileCache line 258: the entry is built
\* and the index loaded
save_begin(w, a, head, whereUsed) ==
    /\ ~Active(w)
    /\ budget.saves > 0
    /\ Readable(RelativeToCwd(a.filePath))
    /\ budget' = [budget EXCEPT !.saves = @ - 1]
    /\ clock' = clock + 1
    /\ LET rel == RelativeToCwd(a.filePath) IN
       savers' = [savers EXCEPT
                     !.proc[w] = [pc |-> "loaded", a |-> a, rel |-> rel,
                                  data |-> manualEntry(a, rel, head, whereUsed),
                                  idx |-> loadIndex],
                     !.overlapped = @ \/ \E v \in Savers \ {w} : Active(v)]
    /\ UNCHANGED <<disk, indexDoc, fileRecs, symIndexDoc, symRecs, ret, hist, stateDoc,
                   git, writer>>

\* the step of process w to pc next
SaverAt(w, next) == [savers EXCEPT !.proc[w].pc = next]

\* lines 261-265, fs.writeFile: the record is opened, which empties it
save_openRecord(w) ==
    /\ savers.proc[w].pc = "loaded"
    /\ fileRecs' = [fileRecs EXCEPT ![refFromPath(savers.proc[w].rel)] = CorruptDoc]
    /\ savers' = SaverAt(w, "recordOpen")
    /\ UNCHANGED <<disk, indexDoc, symIndexDoc, symRecs, clock, budget, ret, hist,
                   stateDoc, git, writer>>

\* lines 261-265: the card is written
save_writeRecord(w) ==
    /\ savers.proc[w].pc = "recordOpen"
    /\ fileRecs' = [fileRecs EXCEPT ![refFromPath(savers.proc[w].rel)] =
                                         Json(StringifyCard(savers.proc[w].data))]
    /\ savers' = SaverAt(w, "recordWritten")
    /\ UNCHANGED <<disk, indexDoc, symIndexDoc, symRecs, clock, budget, ret, hist,
                   stateDoc, git, writer>>

\* A faulty variant: index.json is opened without waiting for the record.
save_openIndex_early(w) ==
    /\ savers.proc[w].pc \in {"loaded", "recordWritten"}
    /\ indexDoc' = CorruptDoc
    /\ savers' = SaverAt(w, "indexOpen")
    /\ UNCHANGED <<disk, fileRecs, symIndexDoc, symRecs, clock, budget, ret, hist,
                   stateDoc, git, writer>>

\* lines 285 and 237, fs.writeFile: index.json is opened, which empties it
save_openIndex(w) ==
    /\ savers.proc[w].pc = "recordWritten"
    /\ indexDoc' = CorruptDoc
    /\ savers' = SaverAt(w, "indexOpen")
    /\ UNCHANGED <<disk, fileRecs, symIndexDoc, symRecs, clock, budget, ret, hist,
                   stateDoc, git, writer>>

\* lines 267-285 and 237: the index that was loaded, updated, is written;
\* the command ends
save_writeIndex(w) ==
    /\ savers.proc[w].pc = "indexOpen"
    /\ LET me == savers.proc[w] IN
       /\ indexDoc' = saveIndex(reconcile(me.idx, me.rel, me.data))
       /\ hist' = [hist EXCEPT !.cards[me.rel] = Some(me.data),
                               !.bytes[me.rel] = disk[me.rel],
                               !.nsaves[me.rel] = @ + 1]
    /\ savers' = SaverAt(w, "idle")
    /\ UNCHANGED <<disk, fileRecs, symIndexDoc, symRecs, clock, budget, ret, stateDoc,
                   git, writer>>

\* the process is killed where it is: what it has written stays
save_killed(w) ==
    /\ Active(w)
    /\ savers.killedAt = "none"
    /\ savers' = [savers EXCEPT !.proc[w] = [pc |-> "idle"],
                                !.killedAt = savers.proc[w].pc]
    /\ UNCHANGED <<disk, indexDoc, fileRecs, symIndexDoc, symRecs, clock, budget, ret,
                   hist, stateDoc, git, writer>>

----------------------------------------------------------------------------
\* Queries.  An output line is [t |-> what the line is, v |-> what it shows].

Line(t, v) == [t |-> t, v |-> v]

\* String.prototype.toLowerCase on the letters of the model
LowerChar(c) ==
    CASE c = "F" -> "f"
      [] c = "B" -> "b"
      [] OTHER -> c

toLowerCase(s) == [i \in 1..Len(s) |-> LowerChar(s[i])]

\* Array.prototype.find: the first match, or None
find(s, Test(_)) ==
    LET hits == SelectSeq(s, Test) IN IF hits = <<>> THEN None ELSE Some(Head(hits))

\* lines 29-39
symbolRecord(m) ==
    <<Line("symbol", m.symbol), Line("Kind", m.kind), Line("File", m.file),
      Line("Purpose", m.purpose)>>
    \o (IF Truthy(m.signature) THEN <<Line("Signature", Get(m.signature))>> ELSE <<>>)
    \o (IF NonEmpty(m.related) THEN <<Line("Related", Get(m.related))>> ELSE <<>>)
    \o (IF NonEmpty(m.keywords) THEN <<Line("Keywords", Get(m.keywords))>> ELSE <<>>)
    \o <<Line("Updated", m.updatedAt)>>

\* A faulty variant: the sentinel hash is compared like any other hash.
stalenessLines_noSentinel(rel, cache) ==
    IF Readable(RelativeToCwd(rel))
    THEN IF fileHash(RelativeToCwd(rel)) # cache.hash
         THEN <<Line("Context outdated", rel)>>
         ELSE <<>>
    ELSE <<Line("File not found", rel)>>

\* A faulty variant: a file that cannot be read counts as changed.
stalenessLines_oneWarning(rel, cache) ==
    IF cache.hash # MetaHash
    THEN IF Readable(RelativeToCwd(rel)) /\ fileHash(RelativeToCwd(rel)) = cache.hash
         THEN <<>>
         ELSE <<Line("Context outdated", rel)>>
    ELSE <<>>

\* lines 82-91: the staleness line of a card, if any
stalenessLines(rel, cache) ==
    IF cache.hash # MetaHash
    THEN IF Readable(RelativeToCwd(rel))
         THEN IF fileHash(RelativeToCwd(rel)) # cache.hash
              THEN <<Line("Context outdated", rel)>>
              ELSE <<>>
         ELSE <<Line("File not found", rel)>>
    ELSE <<>>

\* lines 71-93
moduleLines(rel, cache) ==
    <<Line("module", rel), Line("summary", cache.summary)>>
    \o (IF Len(cache.symbols) > 0 THEN <<Line("Symbols", cache.symbols)>> ELSE <<>>)
    \o (IF NonEmpty(cache.exports) THEN <<Line("Exports", Get(cache.exports))>> ELSE <<>>)
    \o (IF NonEmpty(cache.keywords) THEN <<Line("Keywords", Get(cache.keywords))>> ELSE <<>>)
    \o (IF NonEmpty(cache.dependencies) THEN <<Line("Deps", Get(cache.dependencies))>> ELSE <<>>)
    \o (IF Truthy(cache.footguns) THEN <<Line("Footguns", Get(cache.footguns))>> ELSE <<>>)
    \o (IF Truthy(cache.delta) THEN <<Line("Last change", Get(cache.delta))>> ELSE <<>>)
    \o stalenessLines(rel, cache)
    \o <<Line("blank", rel)>>

\* A faulty variant: the filter is compared as a raw string prefix.
passesFilter_rawPrefix(rel, relFilter) ==
    IF NonEmpty(relFilter)
    THEN LET f == Get(relFilter) IN
         f = <<>> \/ f = <<".">> \/ rel = f \/ StartsWith(rel, f)
    ELSE TRUE

\* lines 61-66: whether the loop body goes on for rel
passesFilter(rel, relFilter) ==
    IF NonEmpty(relFilter)
    THEN LET f == Get(relFilter)
             isCwd == f = <<>> \/ f = <<".">>
             isExact == rel = f
             isUnder == StartsWith(rel, f \o <<Slash>>)
         IN  isCwd \/ isExact \/ isUnder
    ELSE TRUE

\* lines 60-94
RECURSIVE moduleCards(_, _)
moduleCards(pathsToShow, relFilter) ==
    IF pathsToShow = <<>> THEN <<>>
    ELSE LET rel == Head(pathsToShow)
             cache == loadFileCache(rel)
         IN  (IF passesFilter(rel, relFilter) /\ IsSome(cache)
              THEN moduleLines(rel, Get(cache)) ELSE <<>>)
             \o moduleCards(Tail(pathsToShow), relFilter)

\* lines 109-115
RECURSIVE symbolLines(_)
symbolLines(cards) ==
    IF cards = <<>> THEN <<>>
    ELSE LET c == Head(cards) IN
         <<Line("symbolcard", c.symbol), Line("purpose", c.purpose)>>
         \o (IF Truthy(c.signature) THEN <<Line("Sig", Get(c.signature))>> ELSE <<>>)
         \o (IF NonEmpty(c.related) THEN <<Line("Related", Get(c.related))>> ELSE <<>>)
         \o <<Line("blank", c.symbol)>>
         \o symbolLines(Tail(cards))

\* A faulty variant: a symbol is shown when the module card of its file is.
symbolsToShow_byModule(keywords) ==
    IF NonEmpty(keywords)
    THEN Filter(loadAllSymbols, LAMBDA c : Includes(lookupByKeywords(Get(keywords)), c.file))
    ELSE loadAllSymbols

\* lines 99-104
symbolsToShow(keywords) ==
    IF NonEmpty(keywords)
    THEN Filter(loadAllSymbols,
                LAMBDA c : \E i \in 1..Len(Get(keywords)) :
                              IsSome(c.keywords) /\ Includes(Get(c.keywords), Get(keywords)[i]))
    ELSE loadAllSymbols

\* A faulty variant: a stored name that begins with the name asked for matches.
matchesSymbol_prefix(c, symbol) == StartsWith(toLowerCase(c.symbol), toLowerCase(symbol))

\* line 25
matchesSymbol(c, symbol) == toLowerCase(c.symbol) = toLowerCase(symbol)

\* A faulty variant: the path filter is applied to the symbol cards too.
getContext_filterSymbols(filterPath, keywords, symbol) ==
    IF NonEmpty(symbol)
    THEN LET match == find(loadAllSymbols, LAMBDA c : matchesSymbol(c, Get(symbol)))
         IN  IF ~IsSome(match) THEN <<Line("No symbol found", Get(symbol))>>
             ELSE symbolRecord(Get(match))
    ELSE LET targetPaths == IF NonEmpty(keywords)
                            THEN Some(lookupByKeywords(Get(keywords))) ELSE None
             relFilter == IF NonEmpty(filterPath)
                          THEN Some(RelativeToCwd(Get(filterPath))) ELSE None
             pathsToShow == IF IsSome(targetPaths) THEN Get(targetPaths)
                            ELSE ObjKeys(loadIndex.files)
             shown == Filter(symbolsToShow(keywords), LAMBDA c : passesFilter(c.file, relFilter))
         IN  moduleCards(pathsToShow, relFilter)
             \o (IF Len(shown) > 0
                 THEN <<Line("Symbols section", Len(shown))>> \o symbolLines(shown)
                 ELSE <<>>)

\* A faulty variant: keywords that find no path list every path.
getContext_fallback(filterPath, keywords, symbol) ==
    IF NonEmpty(symbol)
    THEN LET match == find(loadAllSymbols, LAMBDA c : matchesSymbol(c, Get(symbol)))
         IN  IF ~IsSome(match) THEN <<Line("No symbol found", Get(symbol))>>
             ELSE symbolRecord(Get(match))
    ELSE LET targetPaths == IF NonEmpty(keywords)
                            THEN Some(lookupByKeywords(Get(keywords))) ELSE None
             relFilter == IF NonEmpty(filterPath)
                          THEN Some(RelativeToCwd(Get(filterPath))) ELSE None
             pathsToShow == IF IsSome(targetPaths) /\ Get(targetPaths) # <<>>
                            THEN Get(targetPaths)
                            ELSE ObjKeys(loadIndex.files)
             shown == symbolsToShow(keywords)
         IN  moduleCards(pathsToShow, relFilter)
             \o (IF Len(shown) > 0
                 THEN <<Line("Symbols section", Len(shown))>> \o symbolLines(shown)
                 ELSE <<>>)

\* getContext({filterPath, keywords, symbol}): the lines of the text it returns
getContext(filterPath, keywords, symbol) ==
    IF NonEmpty(symbol)
    THEN LET match == find(loadAllSymbols, LAMBDA c : matchesSymbol(c, Get(symbol)))
         IN  IF ~IsSome(match) THEN <<Line("No symbol found", Get(symbol))>>
             ELSE symbolRecord(Get(match))
    ELSE LET targetPaths == IF NonEmpty(keywords)
                            THEN Some(lookupByKeywords(Get(keywords))) ELSE None
             relFilter == IF NonEmpty(filterPath)
                          THEN Some(RelativeToCwd(Get(filterPath))) ELSE None
             pathsToShow == IF IsSome(targetPaths) THEN Get(targetPaths)
                            ELSE ObjKeys(loadIndex.files)
             shown == symbolsToShow(keywords)
         IN  moduleCards(pathsToShow, relFilter)
             \o (IF Len(shown) > 0
                 THEN <<Line("Symbols section", Len(shown))>> \o symbolLines(shown)
                 ELSE <<>>)

\* A faulty variant: a file that cannot be read is passed over.
RECURSIVE staleOf_readableOnly(_)
staleOf_readableOnly(paths) ==
    IF paths = <<>> THEN <<>>
    ELSE LET rel == Head(paths)
             cache == loadFileCache(rel)
         IN  (IF ~IsSome(cache) \/ Get(cache).hash = MetaHash THEN <<>>
              ELSE IF Readable(RelativeToCwd(rel))
                      /\ fileHash(RelativeToCwd(rel)) # Get(cache).hash
                   THEN <<[path |-> rel, reason |-> "file content changed"]>>
                   ELSE <<>>)
             \o staleOf_readableOnly(Tail(paths))

\* lines 128-140
RECURSIVE staleOf(_)
staleOf(paths) ==
    IF paths = <<>> THEN <<>>
    ELSE LET rel == Head(paths)
             cache == loadFileCache(rel)
         IN  (IF ~IsSome(cache) \/ Get(cache).hash = MetaHash THEN <<>>
              ELSE IF Readable(RelativeToCwd(rel))
                   THEN IF fileHash(RelativeToCwd(rel)) # Get(cache).hash
                        THEN <<[path |-> rel, reason |-> "file content changed"]>>
                        ELSE <<>>
                   ELSE <<[path |-> rel, reason |-> "file not found"]>>)
             \o staleOf(Tail(paths))

getStale == staleOf(ObjKeys(loadIndex.files))

\* A faulty variant: the index that was loaded is written back.
Returns_writeBack(r) ==
    /\ ret = Idle
    /\ ret' = r
    /\ indexDoc' = saveIndex(loadIndex)
    /\ UNCHANGED <<disk, fileRecs, symIndexDoc, symRecs, clock, budget, hist, ledger>>

\* A query command: it reads, and returns.
Returns(r) ==
    /\ ret = Idle
    /\ ret' = r
    /\ UNCHANGED <<disk, indexDoc, fileRecs, symIndexDoc, symRecs, clock, budget, hist, ledger>>

\* repoctx get
GetContext(filterPath, keywords, symbol) ==
    Returns([op |-> "getContext", filterPath |-> filterPath, keywords |-> keywords,
             symbol |-> symbol, out |-> getContext(filterPath, keywords, symbol)])

\* repoctx stale
GetStale == Returns([op |-> "getStale", out |-> getStale])

LookupByKeywords(keywords) ==
    Returns([op |-> "lookupByKeywords", keywords |-> keywords,
             out |-> lookupByKeywords(keywords)])

LoadFileCache(rel) ==
    Returns([op |-> "loadFileCache", rel |-> rel, out |-> loadFileCache(rel)])

\* the command's process ends
exit ==
    /\ ret # Idle
    /\ ret' = Idle
    /\ UNCHANGED <<disk, indexDoc, fileRecs, symIndexDoc, symRecs, clock, budget, hist, ledger>>

----------------------------------------------------------------------------
\* The change summary.  A number is <<n>>, NaN is <<>>.  The output of
\* git diff --numstat is a sequence of lines, each the sequence of its
\* tab-separated parts; the output of git diff -- <file> is a sequence of
\* lines [kind, text, no]: what the line is in the unified diff, its
\* characters, and its place in the output.

NaN == <<>>

Num(n) == <<n>>

IsNaN(x) == x = NaN

\* Number(s) for the parts git prints: a count, or "-" for a binary file
Number(s) ==
    CASE s = "" -> Num(0)
      [] s = "0" -> Num(0)
      [] s = "1" -> Num(1)
      [] s = "2" -> Num(2)
      [] s = "5" -> Num(5)
      [] s = "10" -> Num(10)
      [] OTHER -> NaN

\* a + b
Plus(a, b) == IF IsNaN(a) \/ IsNaN(b) THEN NaN ELSE Num(a[1] + b[1])

\* lines 363-372; a blank line is <<"">>
RECURSIVE parseNumstat(_)
parseNumstat(output) ==
    IF output = <<>> THEN <<>>
    ELSE LET parts == Head(output)
             file == IF Len(parts) >= 3 THEN Some(parts[3]) ELSE None
         IN  (IF parts = <<"">> \/ ~Truthy(file) THEN <<>>
              ELSE <<[file |-> Get(file), additions |-> Number(parts[1]),
                      deletions |-> Number(parts[2])]>>)
             \o parseNumstat(Tail(output))

\* line 402, the comparator: (b.additions + b.deletions) - (a.additions +
\* a.deletions); sort takes a NaN result as +0
compareStats(a, b) ==
    LET ta == Plus(a.additions, a.deletions)
        tb == Plus(b.additions, b.deletions)
    IN  IF IsNaN(ta) \/ IsNaN(tb) THEN 0 ELSE tb[1] - ta[1]

\* ECMA-262, Array.prototype.sort: comparing equal is transitive (the other
\* conditions of a consistent comparator hold of compareStats anyway)
ConsistentComparator(stats) ==
    \A i, j, k \in 1..Len(stats) :
        (compareStats(stats[i], stats[j]) = 0 /\ compareStats(stats[j], stats[k]) = 0)
            => compareStats(stats[i], stats[k]) = 0

\* x goes before the first element it is to precede, after its equals
RECURSIVE insertSorted(_, _)
insertSorted(sorted, x) ==
    IF sorted = <<>> THEN <<x>>
    ELSE IF compareStats(x, Head(sorted)) < 0 THEN <<x>> \o sorted
    ELSE <<Head(sorted)>> \o insertSorted(Tail(sorted), x)

RECURSIVE stableSort(_, _)
stableSort(stats, sorted) ==
    IF stats = <<>> THEN sorted
    ELSE stableSort(Tail(stats), insertSorted(sorted, Head(stats)))

Orderings(stats) ==
    {[i \in 1..Len(stats) |-> stats[f[i]]] :
        f \in {g \in [1..Len(stats) -> 1..Len(stats)] :
                  \A i, j \in 1..Len(stats) : g[i] = g[j] => i = j}}

\* line 402, stats.sort(...): the stable sort when the comparator is
\* consistent on stats; otherwise the order is implementation-defined
\* (ECMA-262), some permutation of stats
sortOutcomes(stats) ==
    IF ConsistentComparator(stats) THEN {stableSort(stats, <<>>)} ELSE Orderings(stats)

\* Array.prototype.slice(0, n): a negative n counts from the end
SliceSeq(s, n) ==
    LET end == IF n < 0 THEN (IF Len(s) + n < 0 THEN 0 ELSE Len(s) + n)
               ELSE IF Len(s) < n THEN Len(s) ELSE n
    IN  SubSeq(s, 1, end)

\* line 437
ExcerptCap == 40

Plus3 == <<"+", "+", "+">>

Minus3 == <<"-", "-", "-">>

\* line 436: the filter of the excerpt
keepsLine(l) ==
    /\ StartsWith(l.text, <<"+">>) \/ StartsWith(l.text, <<"-">>)
    /\ ~StartsWith(l.text, Plus3)
    /\ ~StartsWith(l.text, Minus3)

\* lines 434-437
excerptOf(fileDiff) == SliceSeq(SelectSeq(fileDiff, keepsLine), ExcerptCap)

\* lines 412-414
entryLines(topStats) == [i \in 1..Len(topStats) |-> Line("entry", topStats[i])]

\* lines 424-444: answer[f] is what git diff -- f prints, or None when it fails
RECURSIVE excerptLines(_, _)
excerptLines(topStats, answer) ==
    IF topStats = <<>> THEN <<>>
    ELSE LET s == Head(topStats)
             fileDiff == answer[s.file]
         IN  (IF ~IsSome(fileDiff) \/ Get(fileDiff) = <<>> THEN <<>>
              ELSE <<Line("excerpt", s.file)>>
                   \o [i \in 1..Len(excerptOf(Get(fileDiff))) |->
                          Line("diffline", [file |-> s.file, l |-> excerptOf(Get(fileDiff))[i]])]
                   \o <<Line("blank", s.file)>>)
             \o excerptLines(Tail(topStats), answer)

\* the git commands runDiff has run after the statistics
diffCalls(topStats) == [i \in 1..Len(topStats) |-> [cmd |-> "diff", arg |-> topStats[i].file]]

\* line 404
topStatsOf(top, stats) ==
    IF IsSome(top) /\ Get(top) # 0 THEN SliceSeq(stats, Get(top)) ELSE stats

\* A faulty variant: the current revision is compared with the short form.
sameRevision_shortHead(currentHead, head) == currentHead = Slice(head, 7)

\* line 390
sameRevision(currentHead, head) == currentHead = head

\* A faulty variant: the current revision is asked for first.
noCheckpoint_afterHead ==
    [out |-> <<Line("No checkpoint found", "")>>,
     calls |-> <<[cmd |-> "rev-parse", arg |-> "HEAD"]>>]

\* lines 376-378
noCheckpoint == [out |-> <<Line("No checkpoint found", "")>>, calls |-> <<>>]

\* runDiff({top}): the lines of the text it returns and the git commands it
\* has run; numstat is what git diff --numstat prints (None: it fails),
\* answer what git diff -- <file> prints, sorted the outcome of the sort
runDiff(top, numstat, answer, sorted) ==
    LET checkpoint == loadCheckpoint IN
    IF ~IsSome(checkpoint) THEN noCheckpoint
    ELSE LET head == Get(checkpoint).head
             at == Get(checkpoint).at
             shortHead == Slice(head, 7)
             revParse == <<[cmd |-> "rev-parse", arg |-> "HEAD"]>>
             numstatCall == <<[cmd |-> "diff", arg |-> "--numstat"]>>
         IN
         IF ~IsSome(git.head)
         THEN [out |-> <<Line("Not in a git repository", "")>>, calls |-> revParse]
         ELSE IF sameRevision(Get(git.head), head)
         THEN [out |-> <<Line("No changes since checkpoint", shortHead)>>, calls |-> revParse]
         ELSE IF ~IsSome(numstat)
         THEN [out |-> <<Line("Could not compute diff", shortHead)>>,
               calls |-> revParse \o numstatCall]
         ELSE LET stats == sorted
                  topStats == topStatsOf(top, stats)
              IN  [out |-> <<Line("# Repoctx Diff", <<shortHead, at>>), Line("blank", ""),
                             Line("Files changed", Len(stats)), Line("blank", "")>>
                           \o entryLines(topStats)
                           \o (IF IsSome(top) /\ Get(top) # 0 /\ Len(stats) > Get(top)
                               THEN <<Line("more", Len(stats) - Get(top))>> ELSE <<>>)
                           \o <<Line("blank", ""), Line("---", ""), Line("blank", "")>>
                           \o excerptLines(topStats, answer),
                   calls |-> revParse \o numstatCall \o diffCalls(topStats)]

\* repoctx diff [--top n]; git answers the diffs of files as answers[which]
RunDiff(top, numstat, answers, which) ==
    \E sorted \in (IF IsSome(numstat) THEN sortOutcomes(parseNumstat(Get(numstat)))
                   ELSE {<<>>}) :
        LET r == runDiff(top, numstat, answers[which], sorted) IN
        Returns([op |-> "runDiff", top |-> top, numstat |-> numstat, answer |-> which,
                 doc |-> stateDoc, checkpoint |-> loadCheckpoint, head |-> git.head,
                 out |-> r.out, calls |-> r.calls])

LoadCheckpoint == Returns([op |-> "loadCheckpoint", out |-> loadCheckpoint])

LoadAllSymbols == Returns([op |-> "loadAllSymbols", out |-> loadAllSymbols])

\* save-symbol parses the text of its --related option
ParseRelated(raw) == Returns([op |-> "parseRelated", raw |-> raw, out |-> parseRelated(raw)])

----------------------------------------------------------------------------
\* The values the commands are run with.

P_su == <<"s", "/", "u">>

P_s2u == <<"s", "2", "/", "u">>

P_m == <<".", "m">>

CardPaths == {P_su, P_s2u, P_m}

Contents == {"v1", "v2"}

S_Fb == <<"F", "b">>

S_fb == <<"f", "b">>

S_f == <<"f">>

SymbolNames == {S_Fb, S_fb, S_f}

\* the names symbol cards are stored under: a symbol can be named as a path is
StoredNames == SymbolNames \cup {P_su}

KwLists == {<<>>, <<"auth">>, <<"db", "auth">>, <<"db", "db">>}

QueryKwLists == {<<"auth">>, <<"db">>, <<"auth", "db">>, <<"auth", "auth">>, <<"zz", "db">>}

Heads == {None, Some("c0ffee")}

ManualArgs(paths, kwLists, metas, symLists, notes) ==
    [filePath : paths, summary : {"what it does"}, symbols : symLists, exports : {None},
     keywords : kwLists, dependencies : {None, Some(<<>>)}, footguns : notes, delta : {None},
     meta : metas]

\* plain cards with every keyword list; the key .m is a virtual (meta) entry
StoreArgs ==
    {a \in ManualArgs(CardPaths, KwLists, BOOLEAN, {<<>>}, {None}) :
        /\ a.meta = (a.filePath = P_m)
        /\ a.dependencies = None}

\* cards with the optional fields given, given empty, and left out
RichArgs ==
    {a \in ManualArgs({P_su}, {<<"auth">>}, {FALSE}, {<<"run", "init", "run">>},
                       {Some("soft delete"), Some("")}) :
        (a.dependencies = None) = (a.footguns = Some(""))}

Init0 ==
    /\ indexDoc = NoDoc
    /\ fileRecs = [r \in {refFromPath(p) : p \in CardPaths} |-> NoDoc]
    /\ symIndexDoc = NoDoc
    /\ symRecs = [r \in {refFromPath(SymbolPrefix \o n) : n \in StoredNames} |-> NoDoc]
    /\ clock = 0
    /\ ret = Idle
    /\ hist = [cards |-> [p \in CardPaths |-> None],
               bytes |-> [p \in CardPaths |-> NoFile],
               nsaves |-> [p \in CardPaths |-> 0],
               symbols |-> [n \in StoredNames |-> None],
               checkpoint |-> None,
               killed |-> FALSE]
    /\ stateDoc = NoDoc
    /\ writer = [pc |-> "idle"]
    /\ savers = NoSavers

\* nothing left of any bounded kind of step
NoBudget ==
    [saves |-> 0, symSaves |-> 0, edits |-> 0, checkpoints |-> 0, commits |-> 0,
     damage |-> 0]

\* The module-card store: saves, loads and keyword lookups.
Init ==
    /\ Init0
    /\ disk = [p \in CardPaths |-> IF p = P_m THEN NoFile ELSE "v1"]
    /\ git = NoGit
    /\ budget = [NoBudget EXCEPT !.saves = MaxSaves]

Next ==
    \/ \E a \in StoreArgs : saveManual(a, None, <<>>)
    \/ \E a \in RichArgs : saveManual(a, Some("c0ffee"), <<"s2/u.ts">>)
    \/ \E kws \in QueryKwLists : LookupByKeywords(kws)
    \/ \E p \in CardPaths : LoadFileCache(p)
    \/ exit

Spec == Init /\ [][Next]_vars

\* Staleness: cards are saved, the working tree changes, and the store is
\* asked what is stale.
StalePaths == {P_su, P_m}

StaleArgs ==
    {a \in ManualArgs(StalePaths, {<<"auth">>, <<>>}, BOOLEAN, {<<>>}, {None}) :
        /\ a.dependencies = None
        /\ (a.keywords = <<>>) = (a.filePath = P_m /\ ~a.meta)}

StaleQueries ==
    {[filterPath |-> None, keywords |-> None],
     [filterPath |-> None, keywords |-> Some(<<"auth">>)],
     [filterPath |-> Some(<<"s">>), keywords |-> None]}

InitStale ==
    /\ Init0
    /\ disk = [p \in CardPaths |-> "v1"]
    /\ git = NoGit
    /\ budget = [NoBudget EXCEPT !.saves = MaxSaves, !.edits = MaxEdits]

NextStale ==
    \/ \E a \in StaleArgs : saveManual(a, None, <<>>)
    \/ \E p \in StalePaths, b \in Contents : writeFile(p, b)
    \/ \E p \in StalePaths : deleteFile(p)
    \/ GetStale
    \/ \E q \in StaleQueries : GetContext(q.filterPath, q.keywords, None)
    \/ exit

SpecStale == InitStale /\ [][NextStale]_vars

\* Symbol cards next to module cards: lookups by name and by keyword.
P_x == <<"x">>

SymbolArgs ==
    {a \in [symbol : SymbolNames, kind : {"function"}, file : {P_su, P_x},
             purpose : {"what it is for"}, signature : {None}, related : {Some(<<>>)},
             keywords : {Some(<<>>), Some(<<"auth">>)}] :
        a.file = P_x => a.keywords = Some(<<"auth">>)}

S_FB == <<"F", "B">>

SymbolQueries == {S_FB, S_fb, S_f}

SymbolSpecArgs ==
    {a \in ManualArgs({P_su, P_m}, {<<"auth">>, <<"db">>}, BOOLEAN, {<<>>}, {None}) :
        /\ a.meta = (a.filePath = P_m)
        /\ a.dependencies = None}

InitSymbols ==
    /\ Init0
    /\ disk = [p \in CardPaths |-> "v1"]
    /\ git = NoGit
    /\ budget = [NoBudget EXCEPT !.saves = MaxCardSaves, !.symSaves = MaxSymSaves]

NextSymbols ==
    \/ \E a \in SymbolSpecArgs : saveManual(a, None, <<>>)
    \/ \E a \in SymbolArgs : saveSymbol(a)
    \/ \E n \in SymbolQueries : GetContext(None, None, Some(n))
    \/ \E kws \in {<<"auth">>, <<"db">>, <<"zz", "auth">>} : GetContext(None, Some(kws), None)
    \/ exit

SpecSymbols == InitSymbols /\ [][NextSymbols]_vars

\* Listings under a path filter.
FilterPaths ==
    {<<"s">>, <<"s", "/">>, <<".", "/", "s">>, <<"s", "/", "u">>, <<"s", "2">>, <<".">>,
     <<"s", "/", ".", ".">>, <<"u">>}

PathSpecArgs ==
    {a \in ManualArgs(CardPaths, {<<"auth">>}, BOOLEAN, {<<>>}, {None}) :
        /\ a.meta = (a.filePath = P_m)
        /\ a.dependencies = None}

InitPaths ==
    /\ Init0
    /\ disk = [p \in CardPaths |-> "v1"]
    /\ git = NoGit
    /\ budget = [NoBudget EXCEPT !.saves = MaxSaves]

NextPaths ==
    \/ \E a \in PathSpecArgs : saveManual(a, None, <<>>)
    \/ \E f \in FilterPaths : GetContext(Some(f), None, None)
    \/ exit

SpecPaths == InitPaths /\ [][NextPaths]_vars

\* The checkpoint: it is saved, read, and saved again while the repository
\* comes, goes and moves on.
MaxCheckpoints == 3

MaxCommits == 2

R1 == <<"c", "0", "f", "f", "e", "e", "1", "a">>

\* a revision with the short form of R1
R2 == <<"c", "0", "f", "f", "e", "e", "1", "b">>

R3 == <<"d", "e", "c", "a", "f", "0", "0", "1">>

GitStates ==
    {NoGit,
     [head |-> Some(R1), branch |-> Some("main")],
     [head |-> Some(R2), branch |-> Some("main")],
     [head |-> Some(R3), branch |-> Some("dev")]}

InitCheckpoint ==
    /\ Init0
    /\ disk = [p \in CardPaths |-> "v1"]
    /\ git = NoGit
    /\ budget = [NoBudget EXCEPT !.checkpoints = MaxCheckpoints, !.commits = MaxCommits]

NextCheckpoint ==
    \/ \E g \in GitStates : gitChange(g)
    \/ saveCheckpoint
    \/ saveCheckpoint_write
    \/ checkpoint_killed
    \/ checkpoint_exit
    \/ LoadCheckpoint
    \/ exit

SpecCheckpoint == InitCheckpoint /\ [][NextCheckpoint]_vars

\* The change summary: what git prints, and the caps it is asked with.
MaxDiffCheckpoints == 1

MaxTop == 3

\* the number of content lines of the long diff
LongDiffLines == 45

Files == {"a.ts", "b.ts", "c.ts", "b.png"}

\* three files, not in the order of their totals
N_three == <<<<"10", "0", "a.ts">>, <<"1", "1", "b.ts">>, <<"5", "0", "c.ts">>>>

\* two files with the same total, and the blank line at the end
N_tie == <<<<"1", "1", "a.ts">>, <<"5", "5", "c.ts">>, <<"2", "0", "b.ts">>, <<"">>>>

\* a binary file between two text files
N_binary == <<<<"1", "0", "a.ts">>, <<"-", "-", "b.png">>, <<"10", "0", "c.ts">>>>

Numstats == {None, Some(<<>>), Some(N_three), Some(N_tie), Some(N_binary)}

DiffLine(kind, text) == [kind |-> kind, text |-> text]

Numbered(ls) == [i \in 1..Len(ls) |-> [kind |-> ls[i].kind, text |-> ls[i].text, no |-> i]]

\* diff --git, index, --- a/f, +++ b/f, @@
HeaderLines ==
    <<DiffLine("header", <<"d", "i", "f", "f">>), DiffLine("header", <<"i", "n", "d">>),
      DiffLine("header", <<"-", "-", "-", " ", "a">>),
      DiffLine("header", <<"+", "+", "+", " ", "b">>),
      DiffLine("hunk", <<"@", "@">>)>>

\* a line changed, an empty line removed, no newline at the end of the file
D_small ==
    Numbered(HeaderLines \o
             <<DiffLine("context", <<" ", "k">>), DiffLine("del", <<"-", "x">>),
               DiffLine("add", <<"+", "y">>), DiffLine("context", <<" ">>),
               DiffLine("del", <<"-">>), DiffLine("meta", <<"\\", " ">>)>>)

\* the line "-- c" removed, the lines "z" and "++i" added
D_dashes ==
    Numbered(HeaderLines \o
             <<DiffLine("del", <<"-", "-", "-", " ", "c">>), DiffLine("add", <<"+", "z">>),
               DiffLine("add", <<"+", "+", "+", "i">>)>>)

D_long ==
    Numbered(HeaderLines \o
             [i \in 1..LongDiffLines |->
                IF i % 2 = 1 THEN DiffLine("add", <<"+", "x">>)
                ELSE DiffLine("del", <<"-", "x">>)])

\* Binary files a/f and b/f differ
D_binary ==
    Numbered(<<DiffLine("header", <<"d", "i", "f", "f">>),
               DiffLine("header", <<"i", "n", "d">>),
               DiffLine("header", <<"B", "i", "n">>)>>)

A_short ==
    [f \in Files |->
        CASE f = "a.ts" -> Some(D_small)
          [] f = "b.ts" -> Some(D_dashes)
          [] f = "c.ts" -> Some(<<>>)
          [] OTHER -> Some(D_binary)]

\* git fails for b.ts and b.png
A_long ==
    [f \in Files |->
        CASE f = "a.ts" -> Some(D_long)
          [] f = "c.ts" -> Some(D_small)
          [] OTHER -> None]

Answers == [short |-> A_short, long |-> A_long]

\* no --top, --top -1, --top 0, ...
Tops == {None, Some(-1)} \cup {Some(n) : n \in 0..MaxTop}

InitDiff ==
    /\ Init0
    /\ disk = [p \in CardPaths |-> "v1"]
    /\ git = NoGit
    /\ budget = [NoBudget EXCEPT !.checkpoints = MaxDiffCheckpoints, !.commits = MaxCommits]

NextDiff ==
    \/ \E g \in GitStates : gitChange(g)
    \/ saveCheckpoint
    \/ saveCheckpoint_write
    \/ checkpoint_killed
    \/ checkpoint_exit
    \/ ret = Idle /\ \E top \in Tops, numstat \in Numstats, which \in DOMAIN Answers :
                        RunDiff(top, numstat, Answers, which)
    \/ exit

SpecDiff == InitDiff /\ [][NextDiff]_vars

\* The texts --related is given: every string of up to MaxRawLen characters.
MaxRawLen == 5

RawChars == {"a", "b", "x", ":", ",", " "}

RawStrings == UNION {[1..n -> RawChars] : n \in 0..MaxRawLen}

InitRelated ==
    /\ Init0
    /\ disk = [p \in CardPaths |-> "v1"]
    /\ git = NoGit
    /\ budget = NoBudget

NextRelated ==
    \/ ret = Idle /\ \E raw \in RawStrings : ParseRelated(raw)
    \/ exit

SpecRelated == InitRelated /\ [][NextRelated]_vars

\* Damaged records: cards and symbol cards are saved, records are damaged,
\* a file is removed, and the store is read.  A module card is saved when
\* the store has no readable record of it, a symbol card once; every record
\* that was saved can be damaged.
MaxDamageSaves == 2

DamagePaths == {P_su, P_s2u}

DamageArgs ==
    {a \in ManualArgs(DamagePaths, {<<"auth">>, <<"db">>}, {FALSE}, {<<>>}, {None}) :
        /\ a.dependencies = None
        /\ (a.keywords = <<"db">>) = (a.filePath = P_s2u)}

DamageSymbols == {S_Fb, S_f}

DamageSymbolArgs ==
    {a \in [symbol : DamageSymbols, kind : {"function"}, file : {P_su},
             purpose : {"what it is for"}, signature : {None}, related : {Some(<<>>)},
             keywords : {Some(<<"auth">>)}] : TRUE}

Damages == {CorruptDoc, NoDoc}

InitDamage ==
    /\ Init0
    /\ disk = [p \in CardPaths |-> "v1"]
    /\ git = NoGit
    /\ budget = [NoBudget EXCEPT !.saves = MaxDamageSaves,
                                 !.symSaves = Cardinality(DamageSymbols),
                                 !.damage = MaxDamageSaves + Cardinality(DamageSymbols),
                                 !.edits = 1]

NextDamage ==
    \/ \E a \in DamageArgs :
          ~Parses(fileRecs[refFromPath(a.filePath)]) /\ saveManual(a, None, <<>>)
    \/ \E a \in DamageSymbolArgs : ~IsSome(hist.symbols[a.symbol]) /\ saveSymbol(a)
    \/ \E p \in DamagePaths, d \in Damages : damageRecord(refFromPath(p), d)
    \/ \E n \in DamageSymbols, d \in Damages :
          damageSymbolRecord(refFromPath(SymbolPrefix \o n), d)
    \/ deleteFile(P_s2u)
    \/ \E p \in CardPaths : LoadFileCache(p)
    \/ GetContext(None, None, None)
    \/ GetContext(None, Some(<<"auth">>), None)
    \/ GetContext(None, None, Some(S_fb))
    \/ GetStale
    \/ LoadAllSymbols
    \/ exit

SpecDamage == InitDamage /\ [][NextDamage]_vars

\* Queries over a store in use: module cards, a symbol card and a checkpoint
\* are saved, a file of the working tree changes, and every query is asked.
MaxQuerySaves == 2

QueryArgs ==
    {a \in ManualArgs(DamagePaths, {<<"auth">>, <<"db">>}, {FALSE}, {<<>>}, {None}) :
        a.dependencies = None}

QuerySymbolArgs == {a \in SymbolArgs : a.symbol = S_f /\ a.file = P_x}

QueryKeywords == {<<"auth", "db">>, <<"db", "auth">>}

InitQueries ==
    /\ Init0
    /\ disk = [p \in CardPaths |-> "v1"]
    /\ git = [head |-> Some(R1), branch |-> Some("main")]
    /\ budget = [NoBudget EXCEPT !.saves = MaxQuerySaves, !.symSaves = 1,
                                 !.checkpoints = 1, !.edits = 1]

NextQueries ==
    \/ \E a \in QueryArgs : saveManual(a, None, <<>>)
    \/ \E a \in QuerySymbolArgs : saveSymbol(a)
    \/ saveCheckpoint
    \/ saveCheckpoint_write
    \/ checkpoint_exit
    \/ writeFile(P_su, "v2")
    \/ deleteFile(P_s2u)
    \/ GetContext(None, None, None)
    \/ \E kws \in QueryKeywords : GetContext(None, Some(kws), None)
    \/ GetContext(None, Some(<<"zz", "db">>), None)
    \/ GetContext(Some(<<"s">>), None, None)
    \/ \E kws \in {<<"auth">>, <<"db">>} : GetContext(Some(<<"s">>), Some(kws), None)
    \/ GetContext(None, None, Some(S_f))
    \/ GetStale
    \/ \E kws \in QueryKeywords : LookupByKeywords(kws)
    \/ exit

SpecQueries == InitQueries /\ [][NextQueries]_vars

\* Names: symbol cards under names that differ in case only and under a
\* name that is also the path of a module card.
NameArgs ==
    {a \in ManualArgs({P_su}, {<<"auth">>, <<"db">>}, {FALSE}, {<<>>}, {None}) :
        a.dependencies = None}

NameSymbolArgs ==
    [symbol : {S_Fb, S_fb, P_su}, kind : {"function"}, file : {P_su},
     purpose : {"what it is for"}, signature : {None}, related : {Some(<<>>)},
     keywords : {Some(<<"auth">>)}]

InitNames ==
    /\ Init0
    /\ disk = [p \in CardPaths |-> "v1"]
    /\ git = NoGit
    /\ budget = [NoBudget EXCEPT !.saves = MaxCardSaves, !.symSaves = MaxSymSaves + 1]

NextNames ==
    \/ \E a \in NameArgs : saveManual(a, None, <<>>)
    \/ \E a \in NameSymbolArgs : saveSymbol(a)
    \/ LoadAllSymbols
    \/ LoadFileCache(P_su)
    \/ GetContext(None, Some(<<"auth">>), None)
    \/ exit

SpecNames == InitNames /\ [][NextNames]_vars

\* The index document: a store written by an older version, whose
\* index.json has no keywordIndex section, is read and saved to, and
\* index.json can become unreadable.
LegacyCard ==
    [path |-> P_m, hash |-> Sha1Hex("v1"), summary |-> <<"what it does">>, symbols |-> <<>>,
     keywords |-> None, updatedAt |-> 0, publicSurfaceHash |-> None, exports |-> None,
     dependencies |-> None, footguns |-> None, delta |-> None, repoHeadAtSave |-> None]

LegacyFiles == <<[k |-> P_m, v |-> [hash |-> LegacyCard.hash, ref |-> refFromPath(P_m)]]>>

LegacyIndexDoc == Json([version |-> 1, files |-> LegacyFiles, keywordIndex |-> None])

InitIndex ==
    /\ indexDoc = LegacyIndexDoc
    /\ fileRecs = [r \in {refFromPath(p) : p \in CardPaths} |->
                      IF r = refFromPath(P_m) THEN Json(StringifyCard(LegacyCard)) ELSE NoDoc]
    /\ symIndexDoc = NoDoc
    /\ symRecs = [r \in {refFromPath(SymbolPrefix \o n) : n \in StoredNames} |-> NoDoc]
    /\ clock = 0
    /\ ret = Idle
    /\ hist = [cards |-> [p \in CardPaths |-> None],
               bytes |-> [p \in CardPaths |-> NoFile],
               nsaves |-> [p \in CardPaths |-> 0],
               symbols |-> [n \in StoredNames |-> None],
               checkpoint |-> None,
               killed |-> FALSE]
    /\ stateDoc = NoDoc
    /\ writer = [pc |-> "idle"]
    /\ savers = NoSavers
    /\ disk = [p \in CardPaths |-> "v1"]
    /\ git = NoGit
    /\ budget = [NoBudget EXCEPT !.saves = MaxQuerySaves, !.damage = 1]

NextIndex ==
    \/ \E a \in QueryArgs : saveManual(a, None, <<>>)
    \/ \E d \in Damages : damageIndex(d)
    \/ \E kws \in QueryKwLists : LookupByKeywords(kws)
    \/ \E p \in CardPaths : LoadFileCache(p)
    \/ exit

SpecIndex == InitIndex /\ [][NextIndex]_vars

\* Two save commands at once, a reader beside them.
MaxRaceSaves == 2

InitRace ==
    /\ Init0
    /\ disk = [p \in CardPaths |-> "v1"]
    /\ git = NoGit
    /\ budget = [NoBudget EXCEPT !.saves = MaxRaceSaves]

NextRace ==
    \/ \E w \in Savers, a \in QueryArgs : save_begin(w, a, None, <<>>)
    \/ \E w \in Savers : save_openRecord(w)
    \/ \E w \in Savers : save_writeRecord(w)
    \/ \E w \in Savers : save_openIndex(w)
    \/ \E w \in Savers : save_writeIndex(w)
    \/ \E w \in Savers : save_killed(w)
    \/ \E p \in DamagePaths : LoadFileCache(p)
    \/ exit

SpecRace == InitRace /\ [][NextRace]_vars

----------------------------------------------------------------------------
\* What the claims speak of.

AllKeywords == {"auth", "db", "zz"}

\* the paths of bucket k
Bucket(kwi, k) == IF ObjHas(kwi, k) THEN Range(ObjGet(kwi, k)) ELSE {}

\* how often x occurs in s
Count(s, x) == Cardinality({i \in 1..Len(s) : s[i] = x})

NoDuplicates(s) == \A i, j \in 1..Len(s) : s[i] = s[j] => i = j

\* the keywords of the card last saved under p
SavedKeywords(p) ==
    IF IsSome(hist.cards[p]) /\ IsSome(Get(hist.cards[p]).keywords)
    THEN Range(Get(Get(hist.cards[p]).keywords))
    ELSE {}

SavedPaths == {p \in CardPaths : IsSome(hist.cards[p])}

\* an index up to the order of its keys and of its buckets
IndexView(idx) ==
    [files |-> {<<idx.files[i].k, idx.files[i].v>> : i \in 1..Len(idx.files)},
     nfiles |-> Len(idx.files),
     keywords |-> {<<idx.keywordIndex[i].k,
                     [q \in Range(idx.keywordIndex[i].v) |-> Count(idx.keywordIndex[i].v, q)]>> :
                   i \in 1..Len(idx.keywordIndex)},
     nkeywords |-> Len(idx.keywordIndex)]

\* the index rebuilt from nothing by replaying the stored cards
RECURSIVE Replay(_, _)
Replay(idx, paths) ==
    IF paths = <<>> THEN idx
    ELSE Replay(reconcile(idx, Head(paths), Get(loadFileCache(Head(paths)))), Tail(paths))

SaveDone == ret.op = "saveManual" /\ ~ret.threw

\* C1: after any sequence of saves from an empty store, p is in the bucket
\* of k exactly when k is a keyword of the card last saved under p; a
\* single-keyword lookup returns p exactly then; and the keyword index is
\* the one rebuilt by replaying the current cards.
C1_KeywordIndexInSync ==
    LET idx == loadIndex IN
    /\ \A p \in CardPaths, k \in AllKeywords :
          /\ (p \in Bucket(idx.keywordIndex, k)) <=> (k \in SavedKeywords(p))
          /\ (p \in Range(lookupByKeywords(<<k>>))) <=> (k \in SavedKeywords(p))
    /\ Range(ObjKeys(idx.keywordIndex)) \subseteq AllKeywords
    /\ IndexView(Replay(EmptyIndex, ObjKeys(idx.files))).keywords = IndexView(idx).keywords

\* a path has just been saved again, dropping one keyword and gaining another
C1_Witness ==
    /\ SaveDone
    /\ \E k, k2 \in AllKeywords :
          /\ ret.rel \in Bucket(ret.before.keywordIndex, k)
          /\ ~Includes(ret.a.keywords, k)
          /\ ret.rel \notin Bucket(ret.before.keywordIndex, k2)
          /\ Includes(ret.a.keywords, k2)

RepeatedSave ==
    /\ SaveDone
    /\ IsSome(ret.prev)
    /\ Get(ret.prev).keywords = ret.data.keywords
    /\ Get(ret.prev).hash = ret.data.hash

\* C3: saving the same card under the same path a second time leaves files
\* and keywordIndex as the first save left them, up to the order inside
\* buckets.
C3_ReconcileIdempotent ==
    /\ RepeatedSave => IndexView(loadIndex) = IndexView(ret.before)
    /\ SaveDone => IndexView(reconcile(loadIndex, ret.rel, ret.data)) = IndexView(loadIndex)

\* a card with two keywords, one of them shared with another path, has been
\* saved twice in a row
C3_Witness ==
    /\ RepeatedSave
    /\ Cardinality(Range(ret.a.keywords)) = 2
    /\ \E k \in Range(ret.a.keywords) :
          Cardinality(Bucket(loadIndex.keywordIndex, k)) = 2

\* C4: loadFileCache(p) right after saveFileCache(p, c) returns c, field for
\* field; after several saves it returns the card of the last one; and the
\* index holds one entry, and the store one record, per saved path.
C4_SaveLoadRoundTrip ==
    /\ SaveDone => loadFileCache(ret.rel) = Some(ret.data)
    /\ ret.op = "loadFileCache" => ret.out = hist.cards[ret.rel]
    /\ NoDuplicates(ObjKeys(loadIndex.files))
    /\ Range(ObjKeys(loadIndex.files)) = SavedPaths
    /\ {r \in DOMAIN fileRecs : fileRecs[r] # NoDoc} = {refFromPath(p) : p \in SavedPaths}

\* a path saved more than once is loaded, and its card has optional fields
\* that are set and optional fields that are not
C4_Witness ==
    /\ ret.op = "loadFileCache"
    /\ hist.nsaves[ret.rel] >= 2
    /\ IsSome(ret.out)
    /\ IsSome(Get(ret.out).footguns)
    /\ ~IsSome(Get(ret.out).delta)
    /\ Get(ret.out).updatedAt > 0

\* the card last saved under p is a real file's card
SavedNonMeta(p) == IsSome(hist.cards[p]) /\ Get(hist.cards[p]).hash # MetaHash

SavedMeta(p) == IsSome(hist.cards[p]) /\ Get(hist.cards[p]).hash = MetaHash

\* the reasons getStale gave for p
ReasonsFor(out, p) == {out[i].reason : i \in {j \in 1..Len(out) : out[j].path = p}}

\* how many lines of kind t the output has for v
LinesOf(out, t, v) == Cardinality({i \in 1..Len(out) : out[i].t = t /\ out[i].v = v})

\* C5: getStale reports a path whose last card is a real file's card with
\* "file content changed" iff the file is readable and its bytes differ from
\* those at the last save, with "file not found" iff the file cannot be read,
\* and not at all iff the bytes are those of the last save; nothing else is
\* reported, and no path twice.
C5_StaleRoundTrip ==
    ret.op = "getStale" =>
        /\ NoDuplicates([i \in 1..Len(ret.out) |-> ret.out[i].path])
        /\ \A i \in 1..Len(ret.out) : SavedNonMeta(ret.out[i].path)
        /\ \A p \in CardPaths :
              SavedNonMeta(p) =>
                ReasonsFor(ret.out, p) =
                    IF disk[p] = NoFile THEN {"file not found"}
                    ELSE IF disk[p] # hist.bytes[p] THEN {"file content changed"}
                    ELSE {}

\* getStale ran with one saved file changed, one removed
C5_Witness ==
    /\ ret.op = "getStale"
    /\ \E p, q \in CardPaths :
          /\ ReasonsFor(ret.out, p) = {"file content changed"}
          /\ ReasonsFor(ret.out, q) = {"file not found"}

\* C6: a card saved with the meta flag is never reported by getStale and
\* never gets an outdated or file-not-found line from getContext, whatever
\* is on disk.
C6_MetaAlwaysFresh ==
    \A p \in CardPaths :
        SavedMeta(p) =>
            /\ ret.op = "getStale" => ReasonsFor(ret.out, p) = {}
            /\ ret.op = "getContext" =>
                  /\ LinesOf(ret.out, "Context outdated", p) = 0
                  /\ LinesOf(ret.out, "File not found", p) = 0

\* getContext listed a meta card saved under the path of a real file whose
\* bytes are no longer what they were
C6_Witness ==
    /\ ret.op = "getContext"
    /\ SavedMeta(P_su)
    /\ LinesOf(ret.out, "module", P_su) = 1
    /\ disk[P_su] = "v2"
    /\ SavedMeta(P_m)
    /\ disk[P_m] = NoFile
    /\ LinesOf(ret.out, "module", P_m) = 1

\* p is the file or directory f, or lies in the directory f; every path
\* lies in the working directory, which is the empty f
Within(p, f) ==
    \/ f = <<>>
    \/ /\ Len(Split(f)) <= Len(Split(p))
       /\ SubSeq(Split(p), 1, Len(Split(f))) = Split(f)

\* whether the query that has just run is to list the card of p
Asked(p) ==
    /\ p \in SavedPaths
    /\ NonEmpty(ret.keywords) => SavedKeywords(p) \cap Range(Get(ret.keywords)) # {}
    /\ NonEmpty(ret.filterPath) => Within(p, RelativeToCwd(Get(ret.filterPath)))

\* C7: for every module card getContext returns there is no staleness line
\* when the card is meta or the file's bytes are those of the last save, the
\* "Context outdated" line alone when the file is readable and differs, the
\* "File not found" line alone when it cannot be read; and every card asked
\* for is returned, whatever the state of the other files.
C7_OneStalenessOutcome ==
    (ret.op = "getContext" /\ ~NonEmpty(ret.symbol)) =>
        \A p \in CardPaths :
            /\ LinesOf(ret.out, "module", p) = IF Asked(p) THEN 1 ELSE 0
            /\ LinesOf(ret.out, "Context outdated", p) =
                  IF Asked(p) /\ SavedNonMeta(p) /\ disk[p] # NoFile
                     /\ disk[p] # hist.bytes[p]
                  THEN 1 ELSE 0
            /\ LinesOf(ret.out, "File not found", p) =
                  IF Asked(p) /\ SavedNonMeta(p) /\ disk[p] = NoFile THEN 1 ELSE 0

\* a listing of everything whose first card's file is gone and whose second
\* card's file has changed
C7_Witness ==
    /\ ret.op = "getContext"
    /\ ~NonEmpty(ret.keywords) /\ ~NonEmpty(ret.filterPath)
    /\ \E i, j \in 1..Len(ret.out) :
          /\ i < j
          /\ ret.out[i].t = "File not found"
          /\ ret.out[j].t = "Context outdated"

EqualIgnoringCase(a, b) ==
    /\ Len(a) = Len(b)
    /\ \A i \in 1..Len(a) : LowerChar(a[i]) = LowerChar(b[i])

SavedSymbols == {n \in SymbolNames : IsSome(hist.symbols[n])}

\* the keywords of the symbol card last saved under n
SymbolKeywords(n) ==
    IF IsSome(hist.symbols[n]) /\ IsSome(Get(hist.symbols[n]).keywords)
    THEN Range(Get(Get(hist.symbols[n]).keywords))
    ELSE {}

\* C8: getContext({symbol: s}) with s not empty returns the record of a
\* stored card whose name equals s ignoring case when there is one, and the
\* "No symbol found" result otherwise; a name that only begins with s, or
\* that s begins with, never matches.
C8_SymbolLookupExactIgnoringCase ==
    (ret.op = "getContext" /\ NonEmpty(ret.symbol)) =>
        LET s == Get(ret.symbol)
            hits == {n \in SavedSymbols : EqualIgnoringCase(n, s)}
        IN  IF hits = {}
            THEN ret.out = <<Line("No symbol found", s)>>
            ELSE \E n \in hits :
                    /\ ret.out[1] = Line("symbol", n)
                    /\ ret.out = symbolRecord(Get(hist.symbols[n]))

\* a name was found through a query that differs from it in case, while a
\* shorter stored name was passed over
C8_Witness ==
    /\ ret.op = "getContext"
    /\ ret.symbol = Some(S_FB)
    /\ ret.out[1].t = "symbol"
    /\ ret.out[1].v # S_FB
    /\ S_f \in SavedSymbols

\* a keyword query without a path filter has just run
KeywordQuery ==
    /\ ret.op = "getContext"
    /\ ~NonEmpty(ret.symbol)
    /\ NonEmpty(ret.keywords)
    /\ ~NonEmpty(ret.filterPath)

PathQuery ==
    /\ ret.op = "getContext"
    /\ ~NonEmpty(ret.symbol)
    /\ ~NonEmpty(ret.keywords)
    /\ NonEmpty(ret.filterPath)

\* C10: under a filter that canonicalises to a non-empty f, the module with
\* stored path r is listed iff r = f or r starts with f followed by "/"; a
\* path of which f is only a raw string prefix is not listed; under a filter
\* that canonicalises to the working directory every indexed module is listed.
C10_PathFilter ==
    PathQuery =>
        LET f == RelativeToCwd(Get(ret.filterPath)) IN
        \A r \in CardPaths :
            LinesOf(ret.out, "module", r) =
                IF r \in SavedPaths /\ (f = <<>> \/ r = f \/ Within(r, f)) THEN 1 ELSE 0

\* the filter "s", however it is written, listed s/u and not s2/u
C10_Witness ==
    /\ PathQuery
    /\ Get(ret.filterPath) # <<"s">>
    /\ RelativeToCwd(Get(ret.filterPath)) = <<"s">>
    /\ {P_su, P_s2u} \subseteq SavedPaths
    /\ LinesOf(ret.out, "module", P_su) = 1
    /\ LinesOf(ret.out, "module", P_s2u) = 0

\* no save of the checkpoint is under way and none was cut short
SavesComplete == writer.pc # "writing" /\ ~hist.killed

\* C11: after any sequence of saveCheckpoint calls that ran to their end,
\* loadCheckpoint returns the {head, branch, at} of the last one that
\* succeeded, and absent before the first; state.json holds that checkpoint
\* and nothing of an earlier one.
C11_CheckpointLastWriteWins ==
    SavesComplete =>
        /\ loadCheckpoint = hist.checkpoint
        /\ Parses(stateDoc) => DOMAIN stateDoc.v = {"repoRoot", "lastCheckpoint"}
        /\ ~IsSome(hist.checkpoint) => stateDoc = NoDoc

\* a checkpoint taken at one revision has been replaced by one taken at
\* another, and a load has returned the new one
C11_Witness ==
    /\ SavesComplete
    /\ writer.pc = "returned" /\ ~writer.threw
    /\ IsSome(writer.before)
    /\ Get(writer.before).head # writer.cp.head
    /\ ret.op = "loadCheckpoint"
    /\ ret.out = Some(writer.cp)

\* C12: saveCheckpoint throws exactly when git cannot give the revision or
\* the branch, and then state.json is what it was: a checkpoint that was
\* there is still returned by loadCheckpoint, and none is there if none was.
C12_CheckpointNeedsGit ==
    writer.pc = "returned" =>
        /\ writer.threw <=> (~IsSome(writer.git.head) \/ ~IsSome(writer.git.branch))
        /\ writer.threw =>
              /\ stateDoc = writer.beforeDoc
              /\ loadCheckpoint = writer.before
              /\ ~hist.killed => hist.checkpoint = writer.before

\* the save failed outside a repository, after a checkpoint had been saved
C12_Witness ==
    /\ writer.pc = "returned" /\ writer.threw
    /\ IsSome(writer.before)
    /\ loadCheckpoint = writer.before

\* C13: while a save overwrites a checkpoint, loadCheckpoint returns the
\* previous checkpoint or the new one; and once a checkpoint has been saved,
\* loadCheckpoint never returns absent again, also when a later save is cut
\* short.
C13_CheckpointReplacedAtomically ==
    /\ (writer.pc = "writing" /\ IsSome(writer.before)) =>
          loadCheckpoint \in {writer.before, Some(writer.cp)}
    /\ IsSome(hist.checkpoint) => IsSome(loadCheckpoint)

DiffRun == ret.op = "runDiff"

\* the run asked git for statistics or for the diff of a file
DiffCalled == \E i \in 1..Len(ret.calls) : ret.calls[i].cmd = "diff"

\* the run found the checkpoint to be at the current revision
AtCheckpoint ==
    /\ IsSome(ret.checkpoint)
    /\ IsSome(ret.head)
    /\ Get(ret.checkpoint).head = Get(ret.head)

\* C14: when a checkpoint exists and its revision is the current revision,
\* runDiff returns the "No changes since checkpoint" result and runs neither
\* git diff --numstat nor a git diff of a file; a run that does run one of
\* them has a checkpoint whose revision differs from the current revision.
C14_NoChangesShortCircuit ==
    DiffRun =>
        /\ AtCheckpoint =>
              /\ ret.out = <<Line("No changes since checkpoint", Slice(Get(ret.head), 7))>>
              /\ ~DiffCalled
        /\ DiffCalled =>
              /\ IsSome(ret.checkpoint)
              /\ IsSome(ret.head)
              /\ Get(ret.checkpoint).head # Get(ret.head)

\* runDiff ran at the revision of the checkpoint, with statistics and diffs
\* there to be had
C14_Witness ==
    /\ DiffRun
    /\ AtCheckpoint
    /\ ret.numstat = Some(N_three)
    /\ ret.out[1].t = "No changes since checkpoint"

\* C15: when state.json is not there or cannot be parsed, runDiff returns
\* the "No checkpoint found" result, as a value, and has run no git command
\* at all, the query of the current revision included.
C15_NoCheckpointShortCircuit ==
    (DiffRun /\ ~Parses(ret.doc)) =>
        /\ ~IsSome(ret.checkpoint)
        /\ ret.out = <<Line("No checkpoint found", "")>>
        /\ ret.calls = <<>>

\* runDiff ran inside a repository on a state.json that does not parse
C15_Witness ==
    /\ DiffRun
    /\ ret.doc = CorruptDoc
    /\ IsSome(ret.head)
    /\ IsSome(ret.numstat)
    /\ ret.out[1].t = "No checkpoint found"

\* the run went as far as the list of changed files
Listing == DiffRun /\ \E i \in 1..Len(ret.out) : ret.out[i].t = "Files changed"

\* the entries of the list, in the order of the output
Entries(out) ==
    LET es == SelectSeq(out, LAMBDA l : l.t = "entry") IN [i \in 1..Len(es) |-> es[i].v]

\* the changed files as the statistics report them
Changed(numstat) == SelectSeq(Get(numstat), LAMBDA parts : parts # <<"">>)

\* insertions + deletions of an entry, when git has counted them
Total(e) == Plus(e.additions, e.deletions)

Counted(e) == ~IsNaN(Total(e))

\* C16: when the statistics report N changed files, runDiff without a cap
\* lists N entries, one per changed file, and an entry never has a smaller
\* insertions+deletions than an entry listed after it, whatever the
\* statistics, binary files included.
C16_RankedListing ==
    (Listing /\ ~IsSome(ret.top)) =>
        LET es == Entries(ret.out)
            changed == Changed(ret.numstat)
        IN  /\ Len(es) = Len(changed)
            /\ \A i \in 1..Len(changed) :
                  Cardinality({j \in 1..Len(es) : es[j].file = changed[i][3]}) = 1
            /\ \A i, j \in 1..Len(es) :
                  (i < j /\ Counted(es[i]) /\ Counted(es[j])) => Total(es[i])[1] >= Total(es[j])[1]

\* C17: with a cap t > 0 and N changed files, runDiff lists min(t, N)
\* entries, none of them with a smaller insertions+deletions than a changed
\* file it leaves out; the "more" marker is there iff N > t and counts
\* N - t; and only listed files get an excerpt or a git diff of their own.
C17_TopCap ==
    (Listing /\ IsSome(ret.top) /\ Get(ret.top) > 0) =>
        LET t == Get(ret.top)
            es == Entries(ret.out)
            all == parseNumstat(Get(ret.numstat))
            N == Len(Changed(ret.numstat))
            listed == {es[i].file : i \in 1..Len(es)}
        IN  /\ Len(es) = IF t < N THEN t ELSE N
            /\ \A i \in 1..Len(es), j \in 1..Len(all) :
                  (all[j].file \notin listed /\ Counted(es[i]) /\ Counted(all[j]))
                      => Total(es[i])[1] >= Total(all[j])[1]
            /\ Cardinality({i \in 1..Len(ret.out) : ret.out[i].t = "more"})
                  = IF N > t THEN 1 ELSE 0
            /\ \A i \in 1..Len(ret.out) :
                  /\ ret.out[i].t = "more" => ret.out[i].v = N - t
                  /\ ret.out[i].t = "excerpt" => ret.out[i].v \in listed
                  /\ ret.out[i].t = "diffline" => ret.out[i].v.file \in listed
            /\ \A i \in 1..Len(ret.calls) :
                  (ret.calls[i].cmd = "diff" /\ ret.calls[i].arg # "--numstat")
                      => ret.calls[i].arg \in listed

\* the lines of the excerpt of file f, in the order of the output
Excerpt(out, f) ==
    LET ls == SelectSeq(out, LAMBDA l : l.t = "diffline" /\ l.v.file = f)
    IN  [i \in 1..Len(ls) |-> ls[i].v.l]

\* the added and removed lines of a diff, in its order
ContentLines(fileDiff) == SelectSeq(fileDiff, LAMBDA l : l.kind \in {"add", "del"})

\* C18: the excerpt of a file is its diff's added and removed lines, in the
\* order of the diff, cut after 40 lines: no header, hunk or context line is
\* in it, and none of the first 40 added or removed lines is missing.
C18_ExcerptContentOnly ==
    DiffRun =>
        \A f \in Files :
            (\E i \in 1..Len(ret.out) : ret.out[i].t = "excerpt" /\ ret.out[i].v = f) =>
                LET ex == Excerpt(ret.out, f)
                    content == ContentLines(Get(Answers[ret.answer][f]))
                IN  /\ \A i \in 1..Len(ex) : ex[i].kind \in {"add", "del"}
                    /\ \A i, j \in 1..Len(ex) : i < j => ex[i].no < ex[j].no
                    /\ Len(ex) <= 40
                    /\ \A i \in 1..Len(content) :
                          i <= 40 => \E j \in 1..Len(ex) : ex[j] = content[i]

\* where the segments of raw begin: at its start and after each comma
SegmentStarts(raw) == {1} \cup {i + 1 : i \in {j \in 1..Len(raw) : raw[j] = ","}}

\* the segment of raw that begins at a: up to the next comma or the end
SegmentAt(raw, a) ==
    LET ends == {j \in a..Len(raw) : raw[j] = ","} \cup {Len(raw) + 1}
    IN  SubSeq(raw, a, (CHOOSE e \in ends : \A e2 \in ends : e <= e2) - 1)

Blank(s) == \A i \in 1..Len(s) : s[i] = " "

\* s without the spaces around it
Stripped(s) ==
    IF Blank(s) THEN <<>>
    ELSE LET inked == {i \in 1..Len(s) : s[i] # " "}
         IN  SubSeq(s, CHOOSE i \in inked : \A j \in inked : i <= j,
                       CHOOSE i \in inked : \A j \in inked : i >= j)

\* what the claim says of segment seg: name and label around the first
\* colon, "related" when there is no colon or no label
Expected(seg) ==
    LET colons == {i \in 1..Len(seg) : seg[i] = ":"}
    IN  IF colons = {} THEN [symbol |-> Stripped(seg), relation |-> DefaultRelation]
        ELSE LET c == CHOOSE i \in colons : \A j \in colons : i <= j
                 label == Stripped(SubSeq(seg, c + 1, Len(seg)))
             IN  [symbol |-> Stripped(SubSeq(seg, 1, c - 1)),
                  relation |-> IF label = <<>> THEN DefaultRelation ELSE label]

\* C19: parseRelated returns one entry per comma-separated segment that is
\* not blank, in the order of the input: name and label of a segment
\* "name:label", and the relation "related" for a segment without a colon
\* or without a label; no entry has an empty relation.
C19_ParseRelated ==
    ret.op = "parseRelated" =>
        LET starts == {a \in SegmentStarts(ret.raw) : ~Blank(SegmentAt(ret.raw, a))}
        IN  /\ Len(ret.out) = Cardinality(starts)
            /\ \A a \in starts :
                  ret.out[Cardinality({b \in starts : b <= a})] = Expected(SegmentAt(ret.raw, a))
            /\ \A i \in 1..Len(ret.out) : ret.out[i].relation # <<>>

\* "a:x,b" gave {a, x} and {b, related}
C19_Witness ==
    /\ ret.op = "parseRelated"
    /\ ret.raw = <<"a", ":", "x", ",", "b">>
    /\ ret.out = <<[symbol |-> <<"a">>, relation |-> <<"x">>],
                   [symbol |-> <<"b">>, relation |-> DefaultRelation]>>

\* p is indexed and its record can be read and parsed
IntactModule(p) == p \in SavedPaths /\ Parses(fileRecs[refFromPath(p)])

IntactSymbol(n) == n \in SavedSymbols /\ Parses(symRecs[refFromPath(SymbolPrefix \o n)])

\* C20: loadFileCache returns absent when the path has no index entry or
\* its record is missing or does not parse, and the saved card otherwise;
\* getContext, getStale and loadAllSymbols leave out the entries whose
\* record cannot be read, those only, and return every other indexed card.
C20_CorruptRecordsSkipped ==
    /\ ret.op = "loadFileCache" =>
          ret.out = IF IntactModule(ret.rel) THEN hist.cards[ret.rel] ELSE None
    /\ (ret.op = "getContext" /\ ~NonEmpty(ret.symbol)) =>
          /\ \A p \in CardPaths :
                LinesOf(ret.out, "module", p) = IF Asked(p) /\ IntactModule(p) THEN 1 ELSE 0
          /\ \A n \in SymbolNames :
                LinesOf(ret.out, "symbolcard", n) =
                    IF /\ IntactSymbol(n)
                       /\ NonEmpty(ret.keywords) =>
                              SymbolKeywords(n) \cap Range(Get(ret.keywords)) # {}
                    THEN 1 ELSE 0
    /\ (ret.op = "getContext" /\ NonEmpty(ret.symbol)) =>
          LET hits == {n \in SymbolNames :
                          IntactSymbol(n) /\ EqualIgnoringCase(n, Get(ret.symbol))}
          IN  IF hits = {} THEN ret.out[1].t = "No symbol found"
              ELSE ret.out[1].t = "symbol" /\ ret.out[1].v \in hits
    /\ ret.op = "getStale" =>
          \A p \in CardPaths :
              ReasonsFor(ret.out, p) =
                  IF IntactModule(p) /\ SavedNonMeta(p) /\ disk[p] = NoFile
                  THEN {"file not found"}
                  ELSE IF IntactModule(p) /\ SavedNonMeta(p) /\ disk[p] # hist.bytes[p]
                  THEN {"file content changed"}
                  ELSE {}
    /\ ret.op = "loadAllSymbols" =>
          /\ Len(ret.out) = Cardinality({n \in SymbolNames : IntactSymbol(n)})
          /\ \A n \in SymbolNames :
                IntactSymbol(n) => \E i \in 1..Len(ret.out) : ret.out[i] = Get(hist.symbols[n])

\* a listing left out the module whose record does not parse and was first
\* in the index, and the symbol whose record is gone and was first in its
\* index, and returned the other module and the other symbol
C20_Witness ==
    /\ ret.op = "getContext" /\ ~NonEmpty(ret.symbol) /\ ~NonEmpty(ret.keywords)
    /\ \E p, q \in SavedPaths :
          /\ ObjKeys(loadIndex.files) = <<p, q>>
          /\ fileRecs[refFromPath(p)] = CorruptDoc
          /\ LinesOf(ret.out, "module", q) = 1
    /\ \E n, m \in SavedSymbols :
          /\ ObjKeys(loadSymbolsIndex.symbols) = <<n, m>>
          /\ symRecs[refFromPath(SymbolPrefix \o n)] = NoDoc
          /\ LinesOf(ret.out, "symbolcard", m) = 1

\* what is kept on disk: the documents and records of the store, the
\* checkpoint, the files of the working tree
Persisted == <<disk, indexDoc, fileRecs, symIndexDoc, symRecs, stateDoc>>

QueryOps == {"getContext", "getStale", "lookupByKeywords"}

CardListing == ret.op = "getContext" /\ ~NonEmpty(ret.symbol)

\* the paths of the module cards of a listing, in the order they are shown
ListedModules(out) ==
    LET heads == SelectSeq(out, LAMBDA l : l.t = "module")
    IN  [i \in 1..Len(heads) |-> heads[i].v]

\* where key is among the keys of o
KeyIndex(o, key) == CHOOSE i \in 1..Len(o) : o[i].k = key

\* C22: in every listing of getContext (by keywords as well as by path or
\* all) the module cards are in the iteration order of idx.files.
C22_ListingInIndexOrder ==
    CardListing =>
        LET shown == ListedModules(ret.out)
            files == loadIndex.files
        IN  \A i, j \in 1..Len(shown) :
                i < j => KeyIndex(files, shown[i]) < KeyIndex(files, shown[j])

\* the record files there are
RecordFiles == {r \in DOMAIN fileRecs : fileRecs[r] # NoDoc}

\* C23: the ref of a module card depends on the path only: every save of p
\* writes the same record, idx.files[p].ref never changes whatever the
\* card, and there are as many record files as paths ever saved.
C23_RefFromPathOnly ==
    LET files == loadIndex.files IN
    /\ \A p \in SavedPaths :
          /\ ObjHas(files, p)
          /\ fileRecs[ObjGet(files, p).ref] = Json(StringifyCard(Get(hist.cards[p])))
    /\ (SaveDone /\ ObjHas(ret.before.files, ret.rel)) =>
          ObjGet(files, ret.rel).ref = ObjGet(ret.before.files, ret.rel).ref
    /\ Cardinality(RecordFiles) = Cardinality(SavedPaths)

\* a path has been saved again with another card while the store holds
\* the card of another path
C23_Witness ==
    /\ SaveDone
    /\ IsSome(ret.prev)
    /\ StringifyCard(Get(ret.prev)) # StringifyCard(ret.data)
    /\ Get(ret.prev).keywords # ret.data.keywords
    /\ Cardinality(SavedPaths) > 1

\* C24: after every completed saveFileCache, from an empty store, no bucket
\* of the keyword index is empty and no bucket holds a path twice.
C24_BucketsNonEmptyNoDuplicates ==
    LET kwi == loadIndex.keywordIndex IN
    /\ NoDuplicates(ObjKeys(kwi))
    /\ \A i \in 1..Len(kwi) : Len(kwi[i].v) > 0 /\ NoDuplicates(kwi[i].v)

\* a path that was alone in a bucket has been saved again without that
\* keyword and with one keyword given twice
C24_Witness ==
    /\ SaveDone
    /\ \E k \in AllKeywords :
          /\ ObjHas(ret.before.keywordIndex, k)
          /\ ObjGet(ret.before.keywordIndex, k) = <<ret.rel>>
          /\ ~Includes(ret.a.keywords, k)
          /\ ~ObjHas(loadIndex.keywordIndex, k)
    /\ ~NoDuplicates(ret.a.keywords)

\* the names symbol cards have been saved under
SavedNames == {n \in StoredNames : IsSome(hist.symbols[n])}

\* loadAllSymbols returns one card for each name saved, the last one saved
OneCardPerName ==
    LET cards == loadAllSymbols IN
    /\ Len(cards) = Cardinality(SavedNames)
    /\ \A n \in SavedNames : \E i \in 1..Len(cards) : cards[i] = Get(hist.symbols[n])

\* a save of a symbol card leaves the module side alone, a save of a module
\* card the symbol side
SavesKeepApart ==
    /\ (ret = Idle /\ ret'.op = "saveSymbol") => UNCHANGED <<indexDoc, fileRecs>>
    /\ (ret = Idle /\ ret'.op = "saveManual") => UNCHANGED <<symIndexDoc, symRecs>>

\* C25: loadAllSymbols returns exactly one card for each distinct
\* (case-sensitive) symbol name ever saved, the last card saved under it;
\* saving a symbol card changes no module card, index entry or bucket, and
\* saving a module card changes no symbol card, also when a symbol is named
\* as a module path is.
C25_SymbolCardsByName == []OneCardPerName /\ [][SavesKeepApart]_vars

\* a symbol card has been saved under the path of a stored module card,
\* next to two cards whose names differ in case only
C25_Witness ==
    /\ ret.op = "saveSymbol"
    /\ ret.a.symbol = P_su
    /\ IsSome(loadFileCache(P_su))
    /\ SavedNames = {S_Fb, S_fb, P_su}

\* q is in the same buckets of kwi1 as of kwi2
SameBuckets(kwi1, kwi2, q) ==
    \A k \in AllKeywords : (q \in Bucket(kwi1, k)) <=> (q \in Bucket(kwi2, k))

\* C26: saveFileCache(p, c) leaves idx.files[q], the record of q and the
\* buckets q is in unchanged for every q # p, and no save removes a path
\* saved before from the index, also when index.json was unreadable when
\* the save began.
C26_SavesLocalAndMonotone ==
    SaveDone =>
        LET idx == loadIndex IN
        \A q \in CardPaths \ {ret.rel} :
            /\ ObjHas(ret.before.files, q) =>
                  /\ ObjHas(idx.files, q)
                  /\ ObjGet(idx.files, q) = ObjGet(ret.before.files, q)
            /\ SameBuckets(ret.before.keywordIndex, idx.keywordIndex, q)
            /\ q \in SavedPaths =>
                  /\ ObjHas(idx.files, q)
                  /\ fileRecs[refFromPath(q)] = Json(StringifyCard(Get(hist.cards[q])))

\* index.json has no keywordIndex section
NoKeywordSection(d) == Parses(d) /\ ~IsSome(d.v.keywordIndex)

\* every entry of files1 other than that of rel is an entry of files2
KeepsEntries(files1, files2, rel) ==
    \A i \in 1..Len(files1) :
        files1[i].k # rel =>
            ObjHas(files2, files1[i].k) /\ ObjGet(files2, files1[i].k) = files1[i].v

\* what loading a document without the section gives
LoadsWithoutSection ==
    NoKeywordSection(indexDoc) =>
        /\ loadIndex.keywordIndex = <<>>
        /\ loadIndex.files = indexDoc.v.files
        /\ \A kws \in QueryKwLists : lookupByKeywords(kws) = <<>>
        /\ ret.op = "lookupByKeywords" => ret.out = <<>>

\* what a save to a document without the section writes
SavesWithoutSection ==
    (NoKeywordSection(indexDoc) /\ ret = Idle /\ ret'.op = "saveManual") =>
        /\ ~ret'.threw
        /\ Parses(indexDoc')
        /\ IsSome(indexDoc'.v.keywordIndex)
        /\ \A k \in AllKeywords :
              (ret'.rel \in Bucket(Get(indexDoc'.v.keywordIndex), k))
                  <=> Includes(ret'.a.keywords, k)
        /\ ObjHas(indexDoc'.v.files, ret'.rel)
        /\ KeepsEntries(indexDoc.v.files, indexDoc'.v.files, ret'.rel)

\* C28: an index document without a keywordIndex section loads with an
\* empty keyword index and all its path entries, keyword lookups on it
\* return no path, and a save to it succeeds and writes an index with a
\* keywordIndex section that holds the keywords of the saved path and
\* every path entry there was.
C28_MissingKeywordSection == []LoadsWithoutSection /\ [][SavesWithoutSection]_vars

\* a card has been saved to the store of the older version: the index
\* loaded had an entry and no bucket, the index written has both entries
C28_Witness ==
    /\ SaveDone
    /\ ret.before.keywordIndex = <<>>
    /\ ret.before.files = LegacyFiles
    /\ ret.rel # P_m
    /\ Len(loadIndex.files) = 2
    /\ Len(loadIndex.keywordIndex) = 1

\* the paths that have an entry in idx.files
IndexedPaths == Range(ObjKeys(loadIndex.files))

\* C29: after any sequence of saves from an empty store every path of every
\* bucket has an entry in idx.files, so lookupByKeywords returns indexed
\* paths only.
C29_BucketsHoldIndexedPaths ==
    LET kwi == loadIndex.keywordIndex IN
    /\ \A i \in 1..Len(kwi) : Range(kwi[i].v) \subseteq IndexedPaths
    /\ \A kws \in QueryKwLists : Range(lookupByKeywords(kws)) \subseteq IndexedPaths
    /\ ret.op = "lookupByKeywords" => Range(ret.out) \subseteq IndexedPaths

\* a lookup has returned two paths from a store where a path was saved again
C29_Witness ==
    /\ ret.op = "lookupByKeywords"
    /\ Len(ret.out) = 2
    /\ \E p \in CardPaths : hist.nsaves[p] > 1

\* no save command is running
AllIdle == \A w \in Savers : ~Active(w)

\* the index shows the card last saved under p
Reflected(p) ==
    LET idx == loadIndex IN
    /\ ObjHas(idx.files, p)
    /\ \A k \in AllKeywords : (p \in Bucket(idx.keywordIndex, k)) <=> (k \in SavedKeywords(p))

\* C27: saveFileCache reads, changes and writes the whole index without a
\* lock: as long as one save runs at a time every completed save shows in
\* the index; two saves of different paths that both read the index before
\* either writes it can leave the index without the entry and the buckets
\* of one path although both records are there.
C27_SerialSavesReflected ==
    (AllIdle /\ ~savers.overlapped /\ savers.killedAt = "none") =>
        \A p \in SavedPaths : Reflected(p)

\* the lost update: two saves of different paths have run side by side and
\* completed, both records are there, and the index lacks one of the paths
C27_Witness ==
    /\ AllIdle
    /\ savers.overlapped
    /\ savers.killedAt = "none"
    /\ SavedPaths = DamagePaths
    /\ \A p \in DamagePaths : Parses(fileRecs[refFromPath(p)])
    /\ \E p \in DamagePaths :
          /\ ~ObjHas(loadIndex.files, p)
          /\ \A k \in AllKeywords : p \notin Bucket(loadIndex.keywordIndex, k)
    /\ Len(loadIndex.files) = 1

\* C30: the record is written before index.json, so in every state, also
\* in the middle of a save and after a save was interrupted, every path of
\* the index document has a record file at its ref.
C30_NoDanglingIndexEntry ==
    LET files == loadIndex.files IN
    \A i \in 1..Len(files) : fileRecs[files[i].v.ref] # NoDoc

\* a save was interrupted between its two writes: the record is there,
\* the index has no entry for it, and a reader has asked for the path
C30_Witness ==
    /\ savers.killedAt = "recordWritten"
    /\ ret.op = "loadFileCache"
    /\ ret.out = None
    /\ Parses(fileRecs[refFromPath(ret.rel)])
    /\ ~ObjHas(loadIndex.files, ret.rel)
    /\ Len(loadIndex.files) = 1

\* what the lines of kind t of a listing show
Shown(out, t) ==
    LET ls == SelectSeq(out, LAMBDA l : l.t = t) IN [i \in 1..Len(ls) |-> ls[i].v]

\* the count of the "more" marker, 0 when there is none
MoreCount(out) == IF Shown(out, "more") = <<>> THEN 0 ELSE Shown(out, "more")[1]

\* C31: for every numeric top, 0 and negative values included, the number
\* of listed entries plus the count of the "... and N more files" marker
\* (0 without a marker) is the number of changed files, and so is the count
\* of the "Files changed (N)" header.
C31_TopAccounting ==
    (Listing /\ IsSome(ret.top)) =>
        LET N == Len(Changed(ret.numstat)) IN
        /\ Len(Entries(ret.out)) + MoreCount(ret.out) = N
        /\ Shown(ret.out, "Files changed") = <<N>>
        /\ Len(Shown(ret.out, "more")) <= 1

\* a listing under a path filter has just run
FilteredListing == CardListing /\ NonEmpty(ret.filterPath)

\* whether the query that has just run is to list the symbol card of n
AskedSymbol(n) ==
    /\ n \in SavedNames
    /\ NonEmpty(ret.keywords) => SymbolKeywords(n) \cap Range(Get(ret.keywords)) # {}

\* C32: under a path filter getContext lists a module card iff its path
\* matches the filter and, when keywords are given, it is in the union of
\* their buckets; it lists every stored symbol card when no keywords are
\* given and the symbol cards that carry one of the keywords otherwise,
\* whatever the file of the symbol.
C32_FilterIsForModules ==
    FilteredListing =>
        /\ \A p \in CardPaths : LinesOf(ret.out, "module", p) = IF Asked(p) THEN 1 ELSE 0
        /\ \A n \in StoredNames :
              LinesOf(ret.out, "symbolcard", n) = IF AskedSymbol(n) THEN 1 ELSE 0

\* a listing under the filter "s", without keywords, showed the card of
\* s/u, left out the card of s2/u, and showed a symbol whose file is
\* outside the filter
C32_Witness ==
    /\ FilteredListing
    /\ ~NonEmpty(ret.keywords)
    /\ LinesOf(ret.out, "module", P_su) = 1
    /\ P_s2u \in SavedPaths
    /\ LinesOf(ret.out, "module", P_s2u) = 0
    /\ \E n \in SavedNames :
          /\ LinesOf(ret.out, "symbolcard", n) = 1
          /\ ~Within(Get(hist.symbols[n]).file, RelativeToCwd(Get(ret.filterPath)))

\* no bucket and no symbol card carries a keyword of K
MatchesNothing(K) ==
    /\ \A k \in K : Bucket(loadIndex.keywordIndex, k) = {}
    /\ \A i \in 1..Len(loadAllSymbols) :
          IsSome(loadAllSymbols[i].keywords) =>
              Range(Get(loadAllSymbols[i].keywords)) \cap K = {}

====
